---- MODULE Spec2Model ----
(***************************************************************************)
(* Model of the AI intent / tool-selection layer of the navigation         *)
(* assistant: the provider classes of src/src/ai_navigator/ai_provider.py  *)
(* (ClaudeProvider, OpenAICompatibleProvider) with their JSON extractor,   *)
(* and the pydantic intent parser of src/ai_parser.py.                     *)
(*                                                                         *)
(* Text is modelled as a sequence of lexical tokens.  Punctuation tokens   *)
(* are the single characters themselves; a string literal is one token     *)
(* (its quoted spelling); a prose word is one token.  String literals and  *)
(* prose words of the model contain no brace characters, so the regular    *)
(* expression \{[^}]+\} of the source acts on tokens exactly as it acts on *)
(* characters.                                                             *)
(***************************************************************************)
EXTENDS Integers, Sequences, FiniteSets, TLC

VARIABLES
    kind,             \* class of the provider instance: "claude" | "openai"
    context_history,  \* AIProvider.context_history
    context_summary,  \* AIProvider.context_summary
    pc,               \* position of the call in progress
    call,             \* the operation in progress and its arguments
    request,          \* the message list handed to the backend
    response_text,    \* the text the backend answered with
    outcome,          \* what the operation returned or raised
    nav               \* AINavigationSystem: its client and the request it serves

vars == <<kind, context_history, context_summary, pc, call, request,
          response_text, outcome, nav>>

(***************************************************************************)
(* Bounds of the model.                                                    *)
(***************************************************************************)
MaxRawLen == 3
MaxHistory == 4

(***************************************************************************)
(* Lexical tokens.                                                         *)
(***************************************************************************)
LB == "{"
RB == "}"
LSQ == "["
RSQ == "]"
COMMA == ","
COLON == ":"
SP == " "
FENCE == "<fence>"
NULLTOK == "null"

StrAtoms ==
    {"start", "end", "A", "B", "key", "value", "tool_name", "arguments",
     "reasoning", "geocode", "search_poi", "address", "query", "why",
     "mode", "policy", "callnative", "description", "car", "bus", "walk",
     "driving", "walking", "bicycling", "flying", "origin", "destination",
     "preferences", "3", "name", "inputSchema", "required", "flag", "A B",
     "longitude", "latitude", "my location", "", "map_service", "amap",
     "baidu", "google"}

NumAtoms == 0..4

Quote(s) == "\"" \o s \o "\""

NumTok(n) == ToString(n)

IsStrTok(t) == \E s \in StrAtoms : Quote(s) = t

IsNumTok(t) == \E n \in NumAtoms : NumTok(n) = t

Unquote(t) == CHOOSE s \in StrAtoms : Quote(s) = t

NumOf(t) == CHOOSE n \in NumAtoms : NumTok(n) = t

(***************************************************************************)
(* JSON values as the json module of Python sees them.  A dict is a       *)
(* sequence of <<key, value>> pairs in insertion order.                    *)
(***************************************************************************)
JStr(s) == [jk |-> "str", jv |-> s]
JNum(n) == [jk |-> "num", jv |-> n]
JNull == [jk |-> "null", jv |-> 0]
JObj(ms) == [jk |-> "obj", jv |-> ms]
JArr(xs) == [jk |-> "arr", jv |-> xs]

\* the navigation system before its construction
NoNav ==
    [config |-> "", ai_client |-> "", via |-> "", parsed |-> JNull,
     events |-> <<>>, origin_coords |-> JNull, dest_coords |-> JNull]

IsObj(v) == v.jk = "obj"

HasKey(o, k) == IsObj(o) /\ \E i \in 1..Len(o.jv) : o.jv[i][1] = k

\* dict.get(k, default)
DictGet(o, k, default) ==
    IF HasKey(o, k)
    THEN o.jv[CHOOSE i \in 1..Len(o.jv) : o.jv[i][1] = k][2]
    ELSE default

\* d[k] = v : an existing key keeps its position, a new key is appended
DictPut(ms, k, v) ==
    IF \E i \in 1..Len(ms) : ms[i][1] = k
    THEN [i \in 1..Len(ms) |-> IF ms[i][1] = k THEN <<k, v>> ELSE ms[i]]
    ELSE Append(ms, <<k, v>>)

(***************************************************************************)
(* json.dumps with the default separators (", " and ": ").                 *)
(***************************************************************************)
RECURSIVE Dump(_)
RECURSIVE DumpMembers(_)
RECURSIVE DumpElems(_)

DumpMembers(ms) ==
    IF ms = <<>> THEN <<>>
    ELSE <<Quote(ms[1][1]), COLON, SP>> \o Dump(ms[1][2])
         \o (IF Len(ms) = 1 THEN <<>> ELSE <<COMMA, SP>> \o DumpMembers(Tail(ms)))

DumpElems(xs) ==
    IF xs = <<>> THEN <<>>
    ELSE Dump(xs[1])
         \o (IF Len(xs) = 1 THEN <<>> ELSE <<COMMA, SP>> \o DumpElems(Tail(xs)))

Dump(v) ==
    CASE v.jk = "str" -> <<Quote(v.jv)>>
      [] v.jk = "num" -> <<NumTok(v.jv)>>
      [] v.jk = "null" -> <<NULLTOK>>
      [] v.jk = "obj" -> <<LB>> \o DumpMembers(v.jv) \o <<RB>>
      [] v.jk = "arr" -> <<LSQ>> \o DumpElems(v.jv) \o <<RSQ>>

(***************************************************************************)
(* json.loads: a recursive-descent parse of one JSON value; anything left  *)
(* over after the value ("Extra data") is a JSONDecodeError.               *)
(***************************************************************************)
ParseFail == [ok |-> FALSE, val |-> JNull, rest |-> <<>>]

ParseOk(v, r) == [ok |-> TRUE, val |-> v, rest |-> r]

\* whitespace between tokens is insignificant
Lex(ts) == SelectSeq(ts, LAMBDA t : t # SP)

RECURSIVE ParseValue(_)
RECURSIVE ParseMembers(_, _)
RECURSIVE ParseElems(_, _)

ParseMembers(ts, acc) ==
    IF Len(ts) < 3 \/ ~IsStrTok(ts[1]) \/ ts[2] # COLON THEN ParseFail
    ELSE LET r == ParseValue(SubSeq(ts, 3, Len(ts)))
         IN  IF ~r.ok \/ r.rest = <<>> THEN ParseFail
             ELSE LET acc2 == DictPut(acc, Unquote(ts[1]), r.val)
                  IN  IF Head(r.rest) = RB THEN ParseOk(JObj(acc2), Tail(r.rest))
                      ELSE IF Head(r.rest) = COMMA
                           THEN ParseMembers(Tail(r.rest), acc2)
                           ELSE ParseFail

ParseElems(ts, acc) ==
    LET r == ParseValue(ts)
    IN  IF ~r.ok \/ r.rest = <<>> THEN ParseFail
        ELSE IF Head(r.rest) = RSQ
             THEN ParseOk(JArr(Append(acc, r.val)), Tail(r.rest))
             ELSE IF Head(r.rest) = COMMA
                  THEN ParseElems(Tail(r.rest), Append(acc, r.val))
                  ELSE ParseFail

ParseValue(ts) ==
    IF ts = <<>> THEN ParseFail
    ELSE LET h == Head(ts)
         IN  IF IsStrTok(h) THEN ParseOk(JStr(Unquote(h)), Tail(ts))
             ELSE IF IsNumTok(h) THEN ParseOk(JNum(NumOf(h)), Tail(ts))
             ELSE IF h = NULLTOK THEN ParseOk(JNull, Tail(ts))
             ELSE IF h = LB
                  THEN IF Len(ts) >= 2 /\ ts[2] = RB
                       THEN ParseOk(JObj(<<>>), SubSeq(ts, 3, Len(ts)))
                       ELSE ParseMembers(Tail(ts), <<>>)
             ELSE IF h = LSQ
                  THEN IF Len(ts) >= 2 /\ ts[2] = RSQ
                       THEN ParseOk(JArr(<<>>), SubSeq(ts, 3, Len(ts)))
                       ELSE ParseElems(Tail(ts), <<>>)
             ELSE ParseFail

JsonLoads(text) ==
    LET r == ParseValue(Lex(text))
    IN  IF r.ok /\ r.rest = <<>> THEN [ok |-> TRUE, val |-> r.val]
        ELSE [ok |-> FALSE, val |-> JNull]

(***************************************************************************)
(* re.search(r'\{[^}]+\}', text): the leftmost '{' that is followed by at  *)
(* least one character other than '}' and then a '}'; the match runs to    *)
(* the first '}' after that '{'.                                           *)
(***************************************************************************)
FirstRBAfter(text, i) ==
    IF \E j \in (i + 1)..Len(text) : text[j] = RB
    THEN CHOOSE j \in (i + 1)..Len(text) :
             text[j] = RB /\ \A m \in (i + 1)..(j - 1) : text[m] # RB
    ELSE 0

MatchesAt(text, i) ==
    text[i] = LB /\ FirstRBAfter(text, i) >= i + 2

\* re.match in place of re.search: only a match at the start of the text
ReMatch(text) ==
    IF text # <<>> /\ MatchesAt(text, 1)
    THEN [found |-> TRUE, group |-> SubSeq(text, 1, FirstRBAfter(text, 1))]
    ELSE [found |-> FALSE, group |-> <<>>]

ReSearch(text) ==
    IF \E i \in 1..Len(text) : MatchesAt(text, i)
    THEN LET i == CHOOSE i \in 1..Len(text) :
                      MatchesAt(text, i) /\ \A m \in 1..(i - 1) : ~MatchesAt(text, m)
         IN  [found |-> TRUE, group |-> SubSeq(text, i, FirstRBAfter(text, i))]
    ELSE [found |-> FALSE, group |-> <<>>]

(***************************************************************************)
(* Outcomes of an operation.                                               *)
(***************************************************************************)
NoOutcome == [status |-> "none", value |-> JNull, exc |-> "", msg |-> ""]

Return(v) == [status |-> "return", value |-> v, exc |-> "", msg |-> ""]

Raise(e, m) == [status |-> "raise", value |-> JNull, exc |-> e, msg |-> m]

\* _parse_json_response, the same code in both provider classes
ParseJsonResponse(text) ==
    LET direct == JsonLoads(text)
    IN  IF direct.ok THEN Return(direct.val)
        ELSE LET json_match == ReSearch(text)
             IN  IF json_match.found
                 THEN LET inner == JsonLoads(json_match.group)
                      IN  IF inner.ok THEN Return(inner.val)
                          ELSE Raise("JSONDecodeError", "Expecting value")
                 ELSE Raise("ValueError", "Failed to parse AI response")


\* str.strip(): leading and trailing whitespace removed
RECURSIVE LStrip(_)
LStrip(text) ==
    IF text # <<>> /\ Head(text) = SP THEN LStrip(Tail(text)) ELSE text

RECURSIVE RStrip(_)
RStrip(text) ==
    IF text # <<>> /\ text[Len(text)] = SP
    THEN RStrip(SubSeq(text, 1, Len(text) - 1))
    ELSE text

Strip(text) == RStrip(LStrip(text))

(***************************************************************************)
(* Texts a backend may answer with: a JSON value as json.dumps spells it,  *)
(* bare, inside prose or inside a code fence, and every short sequence of  *)
(* tokens.                                                                 *)
(***************************************************************************)
NOISE == "noise"
LANG == "json"

Bare(toks) == toks
InProse(toks) == <<NOISE, SP>> \o toks \o <<SP, NOISE>>
AfterProse(toks) == <<NOISE, SP>> \o toks
BeforeProse(toks) == toks \o <<SP, NOISE>>
Fenced(toks) == <<FENCE, SP>> \o toks \o <<SP, FENCE>>
FencedLang(toks) == <<FENCE, LANG, SP>> \o toks \o <<SP, FENCE>>

Wrappings(toks) ==
    {Bare(toks), InProse(toks), AfterProse(toks), BeforeProse(toks),
     Fenced(toks), FencedLang(toks)}

NavObj(s, e) == JObj(<< <<"start", JStr(s)>>, <<"end", JStr(e)>> >>)

Places == {"A", "B"}

NavObjs == {NavObj(s, e) : s, e \in Places}

EmptyObj == JObj(<<>>)

FlatObjs ==
    NavObjs \cup
    {EmptyObj,
     JObj(<< <<"key", JStr("value")>> >>),
     JObj(<< <<"key", JNum(1)>>, <<"flag", JNull>> >>),
     JObj(<< <<"start", JStr("A")>> >>),
     JObj(<< <<"end", JStr("B")>> >>)}

ToolSel(t, args) ==
    JObj(<< <<"tool_name", JStr(t)>>, <<"arguments", args>>,
            <<"reasoning", JStr("why")>> >>)

ArgObjs ==
    {EmptyObj, JObj(<< <<"address", JStr("A")>> >>),
     JObj(<< <<"query", JStr("A")>> >>)}

ToolNames == {"geocode", "search_poi", "flying"}

ToolSels == {ToolSel(t, a) : t \in ToolNames, a \in ArgObjs}

NestedObjs ==
    ToolSels \cup
    {JObj(<< <<"key", EmptyObj>> >>),
     JObj(<< <<"key", JObj(<< <<"key", JStr("value")>> >>)>>,
             <<"value", JStr("A")>> >>)}

Objs == FlatObjs \cup NestedObjs

ArrVals ==
    {JArr(<<>>),
     JArr(<<JObj(<< <<"key", JStr("value")>> >>)>>),
     JArr(<<JObj(<< <<"key", JStr("value")>> >>), NavObj("A", "B")>>)}

ScalarVals == {JStr("value"), JNum(1), JNull}

JsonVals == Objs \cup ArrVals \cup ScalarVals

RawAlphabet ==
    {LB, RB, LSQ, RSQ, COMMA, COLON, SP, FENCE, NOISE,
     Quote("key"), Quote("value")}

RawTexts == UNION {[1..n -> RawAlphabet] : n \in 0..MaxRawLen}

WrappedTexts == UNION {Wrappings(Dump(v)) : v \in JsonVals}

Texts == RawTexts \cup WrappedTexts


(***************************************************************************)
(* Provider instances and calls.                                           *)
(***************************************************************************)
Kinds == {"claude", "openai"}

ClaudeModel == "claude-3-5-sonnet-20241022"
OpenAIModel == "gpt-3.5-turbo"

ModelOf(k) == IF k = "claude" THEN ClaudeModel ELSE OpenAIModel

NoCoords == [name |-> "", longitude |-> 0, latitude |-> 0]

NoCall ==
    [op |-> "none", user_input |-> "", tools |-> JNull, context |-> JNull,
     raw_response |-> JNull, expected_info |-> "",
     start_coords |-> NoCoords, end_coords |-> NoCoords,
     user_preference |-> ""]

NoRequest == [model |-> "", max_tokens |-> 0, messages |-> <<>>]

Message(role, content) == [role |-> role, content |-> content]

HistoryEntries == {Message("user", <<"h1">>), Message("assistant", <<"h2">>)}

Histories == UNION {[1..n -> HistoryEntries] : n \in 0..MaxHistory}

Summaries == {"", "summary"}

\* context_history[:3], the oldest entries
FirstThree(h) == SubSeq(h, 1, IF Len(h) > 3 THEN 3 ELSE Len(h))

\* context_history[-3:]
LastThree(h) == SubSeq(h, IF Len(h) > 3 THEN Len(h) - 2 ELSE 1, Len(h))

\* a request whose history entries alias the provider's list: a context set
\* while the call is suspended shows in the request already built
SetContextReachingRequest(h, s) ==
    /\ pc \in {"idle", "awaiting"}
    /\ context_history' = h
    /\ context_summary' = s
    /\ request' = IF pc = "awaiting"
                  THEN [request EXCEPT !.messages =
                            LastThree(h) \o <<request.messages[Len(request.messages)]>>]
                  ELSE request
    /\ UNCHANGED <<nav, kind, pc, call, response_text, outcome>>

(***************************************************************************)
(* AIProvider.set_context and AIProvider.clear_context.                    *)
(***************************************************************************)
SetContext(h, s) ==
    /\ pc \in {"idle", "awaiting"}
    /\ context_history' = h
    /\ context_summary' = s
    /\ UNCHANGED <<nav, kind, pc, call, request, response_text, outcome>>

ClearContext ==
    /\ pc \in {"idle", "awaiting"}
    /\ context_history' = <<>>
    /\ context_summary' = ""
    /\ UNCHANGED <<nav, kind, pc, call, request, response_text, outcome>>

(***************************************************************************)
(* The backend call.  ClaudeProvider calls the synchronous client          *)
(* (client.messages.create, no await): request and answer are one step.    *)
(* OpenAICompatibleProvider awaits client.post: the coroutine is suspended *)
(* between the request and the answer.                                     *)
(***************************************************************************)
ClaudeErrors == {"APITimeoutError", "APIConnectionError", "APIStatusError"}
OpenAIErrors == {"TimeoutException", "ConnectError", "HTTPStatusError"}

\* a body that is not JSON, or that has no choices[0].message.content
OpenAIBodyErrors == {"JSONDecodeError", "KeyError"}

TransportErrors(k) == IF k = "claude" THEN ClaudeErrors ELSE OpenAIErrors

\* the synchronous call of ClaudeProvider, answered within the step; answers
\* pairs each stripped backend text with what the operation makes of it
ClaudeCall(c, req, answers) ==
    /\ pc = "idle"
    /\ kind = "claude"
    /\ call' = c
    /\ request' = req
    /\ \/ \E a \in answers :
            /\ response_text' = a[1]
            /\ outcome' = a[2]
       \/ \E e \in ClaudeErrors :
            /\ response_text' = <<>>
            /\ outcome' = Raise(e, "transport")
    /\ pc' = "done"
    /\ UNCHANGED <<nav, kind, context_history, context_summary>>

\* OpenAICompatibleProvider up to "await client.post(...)"
OpenAISend(c, req) ==
    /\ pc = "idle"
    /\ kind = "openai"
    /\ call' = c
    /\ request' = req
    /\ pc' = "awaiting"
    /\ UNCHANGED <<nav, kind, context_history, context_summary, response_text, outcome>>

\* the resumption with the context reset when the backend call fails
OpenAIResumeResetting(op, answers) ==
    /\ pc = "awaiting"
    /\ kind = "openai"
    /\ call.op = op
    /\ \/ \E a \in answers :
            /\ response_text' = a[1]
            /\ outcome' = a[2]
            /\ UNCHANGED <<context_history, context_summary>>
       \/ \E e \in OpenAIErrors :
            /\ response_text' = <<>>
            /\ outcome' = Raise(e, "transport")
            /\ context_history' = <<>>
            /\ context_summary' = ""
    /\ pc' = "done"
    /\ UNCHANGED <<nav, kind, call, request>>

\* OpenAICompatibleProvider from the resumption of client.post to the return
OpenAIResume(op, answers) ==
    /\ pc = "awaiting"
    /\ kind = "openai"
    /\ call.op = op
    /\ \/ \E a \in answers :
            /\ response_text' = a[1]
            /\ outcome' = a[2]
       \/ \E e \in OpenAIErrors :
            /\ response_text' = <<>>
            /\ outcome' = Raise(e, "transport")
       \/ \E e \in OpenAIBodyErrors :
            /\ response_text' = <<>>
            /\ outcome' = Raise(e, "body")
    /\ pc' = "done"
    /\ UNCHANGED <<nav, kind, context_history, context_summary, call, request>>

\* the caller takes the result; the instance is free for the next call
Finished ==
    /\ pc = "done"
    /\ pc' = "idle"
    /\ call' = NoCall
    /\ request' = NoRequest
    /\ response_text' = <<>>
    /\ outcome' = NoOutcome
    /\ UNCHANGED <<nav, kind, context_history, context_summary>>

(***************************************************************************)
(* parse_navigation_request                                                *)
(***************************************************************************)
UserInputs == {"from A to B"}

ContextStr(summary) == IF summary # "" THEN "\n\nContext:\n" \o summary ELSE ""

NavPrompt(user_input, summary) ==
    <<"Parse this navigation request and extract the start location (A) and end location (B). Return a JSON object with 'start' and 'end' keys. User request: ",
      user_input, ContextStr(summary),
      "Response format: {\"start\": \"location A\", \"end\": \"location B\"} Only return the JSON, no other text.">>

NavMessages(history, summary, user_input) ==
    LastThree(history) \o <<Message("user", NavPrompt(user_input, summary))>>

NavCall(user_input) == [NoCall EXCEPT !.op = "parse_navigation_request",
                                      !.user_input = user_input]

NavRequest(k, user_input) ==
    [model |-> ModelOf(k), max_tokens |-> 200,
     messages |-> NavMessages(context_history, context_summary, user_input)]

NavTexts ==
    UNION {Wrappings(Dump(v)) : v \in FlatObjs} \cup {<<NOISE>>, <<LB, NOISE, RB>>}

\* return self._parse_json_response(response_text)
NavFinish(text) == ParseJsonResponse(text)

\* response_text = ....strip(), then the return statement
NavAnswers == {<<Strip(t), NavFinish(Strip(t))>> : t \in NavTexts}

ClaudeParseNavigationRequest ==
    \E u \in UserInputs :
        ClaudeCall(NavCall(u), NavRequest("claude", u), NavAnswers)

OpenAIParseNavigationRequestSend ==
    \E u \in UserInputs : OpenAISend(NavCall(u), NavRequest("openai", u))

OpenAIParseNavigationRequestResume ==
    OpenAIResume("parse_navigation_request", NavAnswers)


(***************************************************************************)
(* select_mcp_tool                                                         *)
(***************************************************************************)
Tool(name, required) ==
    JObj(<< <<"name", JStr(name)>>,
            <<"inputSchema", JObj(<< <<"required", JArr(required)>> >>)>> >>)

GeocodeTool == Tool("geocode", <<JStr("address")>>)
SearchPoiTool == Tool("search_poi", <<JStr("query")>>)

Catalogs == {JArr(<<GeocodeTool, SearchPoiTool>>), JArr(<<GeocodeTool>>)}

\* the optional context argument: None, or a dict
ContextArgs == {JNull, JObj(<< <<"flag", JNum(1)>> >>)}

UserIntents == {"coordinates of A"}

\* Python truthiness of an optional dict
Truthy(v) == ~(v.jk = "null" \/ (v.jk \in {"obj", "arr"} /\ v.jv = <<>>))

\* json.dumps(context, ensure_ascii=False) if context else "None"
ContextJson(context) == IF Truthy(context) THEN Dump(context) ELSE <<"None">>

SelectPrompt(user_intent, tools, context) ==
    <<"You are an intelligent tool selector. Based on the user's intent and available MCP tools, select the most appropriate tool and generate the correct arguments. User Intent: ",
      user_intent, "Available Tools: ">>
    \o Dump(tools) \o <<"Context: ">> \o ContextJson(context)
    \o <<"Analyze the intent and select the best tool. Return a JSON object with: tool_name, arguments, reasoning. Only return the JSON, no other text.">>

SelectCall(u, tools, context) ==
    [NoCall EXCEPT !.op = "select_mcp_tool", !.user_input = u,
                   !.tools = tools, !.context = context]

SelectRequest(k, u, tools, context) ==
    [model |-> ModelOf(k), max_tokens |-> 500,
     messages |-> <<Message("user", SelectPrompt(u, tools, context))>>]

SelectTexts ==
    UNION {Wrappings(Dump(v)) : v \in ToolSels} \cup {<<NOISE>>}

\* the regular expression applied without the direct json.loads before it
SelectFinishRegexOnly(text) ==
    LET json_match == ReSearch(text)
    IN  IF json_match.found
        THEN LET inner == JsonLoads(json_match.group)
             IN  IF inner.ok THEN Return(inner.val)
                 ELSE Raise("JSONDecodeError", "Expecting value")
        ELSE Raise("ValueError", "Failed to parse AI response")

\* return self._parse_json_response(response_text)
SelectFinish(text) == ParseJsonResponse(text)

\* response_text = ....strip(), then the return statement
SelectAnswers == {<<Strip(t), SelectFinish(Strip(t))>> : t \in SelectTexts}

ClaudeSelectMcpTool ==
    \E u \in UserIntents, tools \in Catalogs, context \in ContextArgs :
        ClaudeCall(SelectCall(u, tools, context),
                   SelectRequest("claude", u, tools, context),
                   SelectAnswers)

OpenAISelectMcpToolSend ==
    \E u \in UserIntents, tools \in Catalogs, context \in ContextArgs :
        OpenAISend(SelectCall(u, tools, context),
                   SelectRequest("openai", u, tools, context))

OpenAISelectMcpToolResume ==
    OpenAIResume("select_mcp_tool", SelectAnswers)

(***************************************************************************)
(* parse_mcp_response                                                      *)
(***************************************************************************)
CoordObj(name, lng, lat) ==
    JObj(<< <<"name", JStr(name)>>, <<"longitude", JNum(lng)>>,
            <<"latitude", JNum(lat)>> >>)

RawResponses == {CoordObj("A", 1, 2), JArr(<<CoordObj("A", 1, 2)>>)}

ExpectedInfos == {"coordinates"}

McpPrompt(raw_response, expected_info, context) ==
    <<"You are an intelligent response parser. Extract the requested information from the MCP tool response. MCP Tool Response: ">>
    \o Dump(raw_response) \o <<"Expected Information: ", expected_info, "Context: ">>
    \o ContextJson(context)
    \o <<"Analyze the response and extract the requested information. Return a JSON object with the extracted data in a clean, structured format. Only return the JSON, no other text.">>

McpCall(raw, info, context) ==
    [NoCall EXCEPT !.op = "parse_mcp_response", !.raw_response = raw,
                   !.expected_info = info, !.context = context]

McpRequest(k, raw, info, context) ==
    [model |-> ModelOf(k), max_tokens |-> 500,
     messages |-> <<Message("user", McpPrompt(raw, info, context))>>]

McpTexts ==
    UNION {Wrappings(Dump(v)) : v \in {CoordObj("A", 1, 2), EmptyObj}}
    \cup {<<NOISE>>}

\* return self._parse_json_response(response_text)
McpFinish(text) == ParseJsonResponse(text)

\* response_text = ....strip(), then the return statement
McpAnswers == {<<Strip(t), McpFinish(Strip(t))>> : t \in McpTexts}

ClaudeParseMcpResponse ==
    \E raw \in RawResponses, info \in ExpectedInfos, context \in ContextArgs :
        ClaudeCall(McpCall(raw, info, context),
                   McpRequest("claude", raw, info, context),
                   McpAnswers)

OpenAIParseMcpResponseSend ==
    \E raw \in RawResponses, info \in ExpectedInfos, context \in ContextArgs :
        OpenAISend(McpCall(raw, info, context),
                   McpRequest("openai", raw, info, context))

OpenAIParseMcpResponseResume ==
    OpenAIResume("parse_mcp_response", McpAnswers)


(***************************************************************************)
(* generate_navigation_url                                                 *)
(***************************************************************************)
\* repr() of a parsed JSON value
RECURSIVE PyRepr(_)
RECURSIVE PyReprItems(_, _)

PyReprItems(xs, isDict) ==
    IF xs = <<>> THEN ""
    ELSE (IF isDict THEN "'" \o xs[1][1] \o "': " \o PyRepr(xs[1][2])
                    ELSE PyRepr(xs[1]))
         \o (IF Len(xs) = 1 THEN "" ELSE ", " \o PyReprItems(Tail(xs), isDict))

PyRepr(v) ==
    CASE v.jk = "str" -> "'" \o v.jv \o "'"
      [] v.jk = "num" -> ToString(v.jv)
      [] v.jk = "null" -> "None"
      [] v.jk = "obj" -> "{" \o PyReprItems(v.jv, TRUE) \o "}"
      [] v.jk = "arr" -> "[" \o PyReprItems(v.jv, FALSE) \o "]"

\* what an f-string puts in place of {v}
PyFormat(v) == IF v.jk = "str" THEN v.jv ELSE PyRepr(v)

\* urllib.parse.quote: letters and digits are kept, a space becomes %20
UrlQuote(s) == IF s = "A B" THEN "A%20B" ELSE s

\* a text value (here: the URL) as the sequence of its pieces
JText(pieces) == [jk |-> "text", jv |-> pieces]

\* the URL with latitude written before longitude
NavUrlLatFirst(start_coords, end_coords, params) ==
    <<"https://uri.amap.com/navigation?",
      "from", "=", ToString(start_coords.latitude), ",", ToString(start_coords.longitude), "&",
      "to", "=", ToString(end_coords.latitude), ",", ToString(end_coords.longitude), "&",
      "sname", "=", UrlQuote(start_coords.name), "&",
      "dname", "=", UrlQuote(end_coords.name), "&",
      "mode", "=", PyFormat(DictGet(params, "mode", JStr("car"))), "&",
      "policy", "=", PyFormat(DictGet(params, "policy", JNum(1))), "&",
      "src", "=", "ai-navigator", "&", "coordinate", "=", "gaode", "&",
      "callnative", "=", PyFormat(DictGet(params, "callnative", JNum(1)))>>

NavUrl(start_coords, end_coords, params) ==
    <<"https://uri.amap.com/navigation?",
      "from", "=", ToString(start_coords.longitude), ",", ToString(start_coords.latitude), "&",
      "to", "=", ToString(end_coords.longitude), ",", ToString(end_coords.latitude), "&",
      "sname", "=", UrlQuote(start_coords.name), "&",
      "dname", "=", UrlQuote(end_coords.name), "&",
      "mode", "=", PyFormat(DictGet(params, "mode", JStr("car"))), "&",
      "policy", "=", PyFormat(DictGet(params, "policy", JNum(1))), "&",
      "src", "=", "ai-navigator", "&", "coordinate", "=", "gaode", "&",
      "callnative", "=", PyFormat(DictGet(params, "callnative", JNum(1)))>>

\* the result dict with a policy default of its own
GenerateNavigationUrlOwnDefault(start_coords, end_coords, text) ==
    LET parsed == ParseJsonResponse(text)
    IN  IF parsed.status = "raise" THEN parsed
        ELSE IF ~IsObj(parsed.value)
             THEN Raise("AttributeError", "object has no attribute 'get'")
             ELSE LET params == parsed.value
                  IN  Return(JObj(<<
                        <<"url", JText(NavUrl(start_coords, end_coords, params))>>,
                        <<"mode", DictGet(params, "mode", JStr("car"))>>,
                        <<"policy", DictGet(params, "policy", JNum(0))>>,
                        <<"callnative", DictGet(params, "callnative", JNum(1))>>,
                        <<"description", DictGet(params, "description",
                                 JStr("AI-generated navigation parameters"))>> >>))

\* the part of generate_navigation_url after the backend's answer
GenerateNavigationUrl(start_coords, end_coords, text) ==
    LET parsed == ParseJsonResponse(text)
    IN  IF parsed.status = "raise" THEN parsed
        ELSE IF ~IsObj(parsed.value)
             THEN Raise("AttributeError", "object has no attribute 'get'")
             ELSE LET params == parsed.value
                  IN  Return(JObj(<<
                        <<"url", JText(NavUrl(start_coords, end_coords, params))>>,
                        <<"mode", DictGet(params, "mode", JStr("car"))>>,
                        <<"policy", DictGet(params, "policy", JNum(1))>>,
                        <<"callnative", DictGet(params, "callnative", JNum(1))>>,
                        <<"description", DictGet(params, "description",
                                 JStr("AI-generated navigation parameters"))>> >>))

Coords(name, lng, lat) == [name |-> name, longitude |-> lng, latitude |-> lat]

StartCoords == {Coords("A", 1, 2), Coords("A B", 2, 1)}
EndCoords == {Coords("B", 3, 4), Coords("B", 1, 2)}

\* None (modelled as "") or a free text
Preferences == {"", "avoid congestion"}

GenPrompt(start_coords, end_coords, user_preference) ==
    <<"Generate navigation URL parameters for Amap based on these coordinates: Start: ",
      start_coords.name, " (", ToString(start_coords.longitude), ", ",
      ToString(start_coords.latitude), ") End: ",
      end_coords.name, " (", ToString(end_coords.longitude), ", ",
      ToString(end_coords.latitude), ") User preference: ",
      IF user_preference # "" THEN user_preference ELSE "default",
      "Provide: navigation_mode, route_policy, use_native_app. Return JSON format: {\"mode\": \"car\", \"policy\": 1, \"callnative\": 1, \"description\": \"...\"} Only return JSON, no other text.">>

GenCall(sc, ec, pref) ==
    [NoCall EXCEPT !.op = "generate_navigation_url", !.start_coords = sc,
                   !.end_coords = ec, !.user_preference = pref]

GenRequest(k, sc, ec, pref) ==
    [model |-> ModelOf(k), max_tokens |-> 300,
     messages |-> <<Message("user", GenPrompt(sc, ec, pref))>>]

Absent == [jk |-> "absent", jv |-> 0]

Member(k, v) == IF v = Absent THEN <<>> ELSE << <<k, v>> >>

ModeChoices == {Absent, JStr("car"), JStr("walk")}
PolicyChoices == {Absent, JNum(0), JNum(3), JStr("3")}
CallnativeChoices == {Absent, JNum(0), JNull}

ParamObjs ==
    {JObj(Member("mode", m) \o Member("policy", p) \o Member("callnative", c)) :
        m \in ModeChoices, p \in PolicyChoices, c \in CallnativeChoices}

GenTexts ==
    {Dump(v) : v \in ParamObjs} \cup {Fenced(Dump(v)) : v \in ParamObjs}
    \cup {Dump(JArr(<<>>)), <<NOISE>>}

\* response_text = ....strip(), then the rest of the method
GenAnswers(sc, ec) ==
    {<<Strip(t), GenerateNavigationUrl(sc, ec, Strip(t))>> : t \in GenTexts}

ClaudeGenerateNavigationUrl ==
    \E sc \in StartCoords, ec \in EndCoords, pref \in Preferences :
        ClaudeCall(GenCall(sc, ec, pref), GenRequest("claude", sc, ec, pref),
                   GenAnswers(sc, ec))

OpenAIGenerateNavigationUrlSend ==
    \E sc \in StartCoords, ec \in EndCoords, pref \in Preferences :
        OpenAISend(GenCall(sc, ec, pref), GenRequest("openai", sc, ec, pref))

OpenAIGenerateNavigationUrlResume ==
    OpenAIResume("generate_navigation_url",
                 GenAnswers(call.start_coords, call.end_coords))

(***************************************************************************)
(* The provider specification: one provider instance, its context and the  *)
(* calls made on it.                                                       *)
(***************************************************************************)
Init ==
    /\ kind \in Kinds
    /\ context_history = <<>>
    /\ context_summary = ""
    /\ pc = "idle"
    /\ call = NoCall
    /\ request = NoRequest
    /\ response_text = <<>>
    /\ outcome = NoOutcome
    /\ nav = NoNav

Next ==
    \/ \E h \in Histories, s \in Summaries : SetContext(h, s)
    \/ ClearContext
    \/ ClaudeParseNavigationRequest
    \/ OpenAIParseNavigationRequestSend
    \/ OpenAIParseNavigationRequestResume
    \/ ClaudeSelectMcpTool
    \/ OpenAISelectMcpToolSend
    \/ OpenAISelectMcpToolResume
    \/ ClaudeParseMcpResponse
    \/ OpenAIParseMcpResponseSend
    \/ OpenAIParseMcpResponseResume
    \/ ClaudeGenerateNavigationUrl
    \/ OpenAIGenerateNavigationUrlSend
    \/ OpenAIGenerateNavigationUrlResume
    \/ Finished

Spec == Init /\ [][Next]_vars


(***************************************************************************)
(* The JSON extractor on its own: _parse_json_response applied to one text *)
(* drawn from Texts, on an instance of either provider class.              *)
(***************************************************************************)
ExtractCall == [NoCall EXCEPT !.op = "_parse_json_response"]

InitExtract ==
    /\ kind \in Kinds
    /\ context_history = <<>>
    /\ context_summary = ""
    /\ pc = "ready"
    /\ call = ExtractCall
    /\ request = NoRequest
    /\ response_text \in Texts
    /\ outcome = NoOutcome
    /\ nav = NoNav

ExtractStep ==
    /\ pc = "ready"
    /\ outcome' = ParseJsonResponse(response_text)
    /\ pc' = "done"
    /\ UNCHANGED <<nav, kind, context_history, context_summary, call, request,
                   response_text>>

NextExtract == ExtractStep

SpecExtract == InitExtract /\ [][NextExtract]_vars

(***************************************************************************)
(* AIIntentParser.parse and the NavigationIntent model (src/ai_parser.py). *)
(***************************************************************************)
DefaultOrigin == "my location"

\* pydantic, field of type str: only a str is accepted
ValidStr(v) == v.jk = "str"

\* pydantic, field of type int: an int, or a str that spells an int
ValidInt(v) ==
    v.jk = "num" \/ (v.jk = "str" /\ \E n \in NumAtoms : ToString(n) = v.jv)

ToInt(v) ==
    IF v.jk = "num" THEN v
    ELSE JNum(CHOOSE n \in NumAtoms : ToString(n) = v.jv)

\* pydantic, field of type list[str]
ValidStrList(v) ==
    v.jk = "arr" /\ \A i \in 1..Len(v.jv) : v.jv[i].jk = "str"

\* NavigationIntent(**result)
NavigationIntent(result) ==
    IF ~IsObj(result)
    THEN Raise("TypeError", "argument after ** must be a mapping")
    ELSE LET origin == DictGet(result, "origin", JStr(DefaultOrigin))
             mode == DictGet(result, "mode", JStr("driving"))
             policy == DictGet(result, "policy", JNum(0))
             preferences == DictGet(result, "preferences", JArr(<<>>))
         IN  IF /\ HasKey(result, "destination")
                /\ ValidStr(DictGet(result, "destination", JNull))
                /\ ValidStr(origin)
                /\ ValidStr(mode)
                /\ ValidInt(policy)
                /\ ValidStrList(preferences)
             THEN Return(JObj(<< <<"origin", origin>>,
                                 <<"destination", DictGet(result, "destination", JNull)>>,
                                 <<"mode", mode>>,
                                 <<"policy", ToInt(policy)>>,
                                 <<"preferences", preferences>> >>))
             ELSE Raise("ValidationError", "validation error for NavigationIntent")

\* the body of parse after the awaited completion; every exception is
\* re-raised as a plain Exception("AI parse failed: ...")
IntentParse(text) ==
    LET loaded == JsonLoads(text)
    IN  IF ~loaded.ok THEN Raise("Exception", "AI parse failed")
        ELSE LET intent == NavigationIntent(loaded.val)
             IN  IF intent.status = "raise" THEN Raise("Exception", "AI parse failed")
                 ELSE intent

IntentModes == {Absent, JStr("driving"), JStr("walking"), JStr("bicycling"), JStr("flying")}
IntentPolicies == {Absent, JStr("3")} \cup {JNum(n) : n \in NumAtoms}
IntentDestinations == {Absent, JStr("B"), JNull}
IntentOrigins == {Absent, JStr("A")}

IntentObjs ==
    {JObj(Member("origin", o) \o Member("destination", d) \o Member("mode", m)
          \o Member("policy", p)) :
        o \in IntentOrigins, d \in IntentDestinations, m \in IntentModes,
        p \in IntentPolicies}

IntentTexts == {Dump(v) : v \in IntentObjs} \cup {Dump(JArr(<<>>)), <<NOISE>>}

IntentCall(u) == [NoCall EXCEPT !.op = "parse", !.user_input = u]

IntentRequest(u) ==
    [model |-> "deepseek-chat", max_tokens |-> 0,
     messages |-> <<Message("system", <<"system_prompt">>), Message("user", <<u>>)>>]

InitIntent ==
    /\ kind = "intent_parser"
    /\ context_history = <<>>
    /\ context_summary = ""
    /\ pc = "idle"
    /\ call = NoCall
    /\ request = NoRequest
    /\ response_text = <<>>
    /\ outcome = NoOutcome
    /\ nav = NoNav

\* parse up to "await self.client.chat.completions.create(...)"
IntentParseSend ==
    /\ pc = "idle"
    /\ \E u \in UserInputs :
         /\ call' = IntentCall(u)
         /\ request' = IntentRequest(u)
    /\ pc' = "awaiting"
    /\ UNCHANGED <<nav, kind, context_history, context_summary, response_text, outcome>>

\* parse from the completion to the return or the re-raised exception
IntentParseResume ==
    /\ pc = "awaiting"
    /\ \/ \E text \in IntentTexts :
            /\ response_text' = text
            /\ outcome' = IntentParse(text)
       \/ /\ response_text' = <<>>
          /\ outcome' = Raise("Exception", "AI parse failed")
    /\ pc' = "done"
    /\ UNCHANGED <<nav, kind, context_history, context_summary, call, request>>

IntentFinished ==
    /\ pc = "done"
    /\ pc' = "idle"
    /\ call' = NoCall
    /\ request' = NoRequest
    /\ response_text' = <<>>
    /\ outcome' = NoOutcome
    /\ UNCHANGED <<nav, kind, context_history, context_summary>>

NextIntent == IntentParseSend \/ IntentParseResume \/ IntentFinished

SpecIntent == InitIntent /\ [][NextIntent]_vars


(***************************************************************************)
(* The two provider classes side by side.  The bodies of the four          *)
(* operations are written out twice in the source; the definitions above   *)
(* follow ClaudeProvider, the ones below follow OpenAICompatibleProvider   *)
(* line by line.  SpecEquiv gives both the same arguments, the same        *)
(* context and the same backend text.                                      *)
(***************************************************************************)
\* the inner json.loads failure reported as the ValueError of the last line
OpenAIParseJsonResponseWrapping(text) ==
    LET direct == JsonLoads(text)
    IN  IF direct.ok THEN Return(direct.val)
        ELSE LET json_match == ReSearch(text)
                 inner == JsonLoads(json_match.group)
             IN  IF json_match.found /\ inner.ok THEN Return(inner.val)
                 ELSE Raise("ValueError", "Failed to parse AI response")

OpenAIParseJsonResponse(text) ==
    LET direct == JsonLoads(text)
    IN  IF direct.ok THEN Return(direct.val)
        ELSE LET json_match == ReSearch(text)
             IN  IF json_match.found
                 THEN LET inner == JsonLoads(json_match.group)
                      IN  IF inner.ok THEN Return(inner.val)
                          ELSE Raise("JSONDecodeError", "Expecting value")
                 ELSE Raise("ValueError", "Failed to parse AI response")

OpenAINavPrompt(user_input, summary) ==
    <<"Parse this navigation request and extract the start location (A) and end location (B). Return a JSON object with 'start' and 'end' keys. User request: ",
      user_input,
      IF summary # "" THEN "\n\nContext:\n" \o summary ELSE "",
      "Response format: {\"start\": \"location A\", \"end\": \"location B\"} Only return the JSON, no other text.">>

OpenAINavMessages(history, summary, user_input) ==
    (IF history # <<>>
     THEN SubSeq(history, IF Len(history) > 3 THEN Len(history) - 2 ELSE 1, Len(history))
     ELSE <<>>)
    \o <<Message("user", OpenAINavPrompt(user_input, summary))>>

OpenAISelectPrompt(user_intent, tools, context) ==
    <<"You are an intelligent tool selector. Based on the user's intent and available MCP tools, select the most appropriate tool and generate the correct arguments. User Intent: ",
      user_intent, "Available Tools: ">>
    \o Dump(tools) \o <<"Context: ">>
    \o (IF Truthy(context) THEN Dump(context) ELSE <<"None">>)
    \o <<"Analyze the intent and select the best tool. Return a JSON object with: tool_name, arguments, reasoning. Only return the JSON, no other text.">>

OpenAIMcpPrompt(raw_response, expected_info, context) ==
    <<"You are an intelligent response parser. Extract the requested information from the MCP tool response. MCP Tool Response: ">>
    \o Dump(raw_response) \o <<"Expected Information: ", expected_info, "Context: ">>
    \o (IF Truthy(context) THEN Dump(context) ELSE <<"None">>)
    \o <<"Analyze the response and extract the requested information. Return a JSON object with the extracted data in a clean, structured format. Only return the JSON, no other text.">>

OpenAIGenPrompt(start_coords, end_coords, user_preference) ==
    <<"Generate navigation URL parameters for Amap based on these coordinates: Start: ",
      start_coords.name, " (", ToString(start_coords.longitude), ", ",
      ToString(start_coords.latitude), ") End: ",
      end_coords.name, " (", ToString(end_coords.longitude), ", ",
      ToString(end_coords.latitude), ") User preference: ",
      IF user_preference # "" THEN user_preference ELSE "default",
      "Provide: navigation_mode, route_policy, use_native_app. Return JSON format: {\"mode\": \"car\", \"policy\": 1, \"callnative\": 1, \"description\": \"...\"} Only return JSON, no other text.">>

OpenAIGenerateNavigationUrl(start_coords, end_coords, text) ==
    LET parsed == OpenAIParseJsonResponse(text)
    IN  IF parsed.status = "raise" THEN parsed
        ELSE IF ~IsObj(parsed.value)
             THEN Raise("AttributeError", "object has no attribute 'get'")
             ELSE LET params == parsed.value
                      url ==
                        <<"https://uri.amap.com/navigation?",
                          "from", "=", ToString(start_coords.longitude), ",", ToString(start_coords.latitude), "&",
                          "to", "=", ToString(end_coords.longitude), ",", ToString(end_coords.latitude), "&",
                          "sname", "=", UrlQuote(start_coords.name), "&",
                          "dname", "=", UrlQuote(end_coords.name), "&",
                          "mode", "=", PyFormat(DictGet(params, "mode", JStr("car"))), "&",
                          "policy", "=", PyFormat(DictGet(params, "policy", JNum(1))), "&",
                          "src", "=", "ai-navigator", "&", "coordinate", "=", "gaode", "&",
                          "callnative", "=", PyFormat(DictGet(params, "callnative", JNum(1)))>>
                  IN  Return(JObj(<<
                        <<"url", JText(url)>>,
                        <<"mode", DictGet(params, "mode", JStr("car"))>>,
                        <<"policy", DictGet(params, "policy", JNum(1))>>,
                        <<"callnative", DictGet(params, "callnative", JNum(1))>>,
                        <<"description", DictGet(params, "description",
                                 JStr("AI-generated navigation parameters"))>> >>))

InitEquiv ==
    /\ kind = "both"
    /\ context_history \in Histories
    /\ context_summary \in Summaries
    /\ pc = "ready"
    /\ call = NoCall
    /\ request = <<NoRequest, NoRequest>>
    /\ response_text = <<>>
    /\ outcome = <<NoOutcome, NoOutcome>>
    /\ nav = NoNav

\* one operation run on both classes: requests and outcomes as pairs
\* <<ClaudeProvider, OpenAICompatibleProvider>>
EquivRun(c, claudeMessages, openaiMessages, max_tokens, text, claudeOutcome, openaiOutcome) ==
    /\ pc = "ready"
    /\ call' = c
    /\ request' = <<[model |-> ClaudeModel, max_tokens |-> max_tokens,
                     messages |-> claudeMessages],
                    [model |-> OpenAIModel, max_tokens |-> max_tokens,
                     messages |-> openaiMessages]>>
    /\ response_text' = text
    /\ outcome' = <<claudeOutcome, openaiOutcome>>
    /\ pc' = "done"
    /\ UNCHANGED <<nav, kind, context_history, context_summary>>

EquivParseNavigationRequest ==
    \E u \in UserInputs, t \in NavTexts :
        EquivRun(NavCall(u),
                 NavMessages(context_history, context_summary, u),
                 OpenAINavMessages(context_history, context_summary, u),
                 200, Strip(t),
                 ParseJsonResponse(Strip(t)), OpenAIParseJsonResponse(Strip(t)))

EquivSelectMcpTool ==
    \E u \in UserIntents, tools \in Catalogs, context \in ContextArgs, t \in SelectTexts :
        EquivRun(SelectCall(u, tools, context),
                 <<Message("user", SelectPrompt(u, tools, context))>>,
                 <<Message("user", OpenAISelectPrompt(u, tools, context))>>,
                 500, Strip(t),
                 ParseJsonResponse(Strip(t)), OpenAIParseJsonResponse(Strip(t)))

EquivParseMcpResponse ==
    \E raw \in RawResponses, info \in ExpectedInfos, context \in ContextArgs, t \in McpTexts :
        EquivRun(McpCall(raw, info, context),
                 <<Message("user", McpPrompt(raw, info, context))>>,
                 <<Message("user", OpenAIMcpPrompt(raw, info, context))>>,
                 500, Strip(t),
                 ParseJsonResponse(Strip(t)), OpenAIParseJsonResponse(Strip(t)))

EquivGenerateNavigationUrl ==
    \E sc \in StartCoords, ec \in EndCoords, pref \in Preferences, t \in GenTexts :
        EquivRun(GenCall(sc, ec, pref),
                 <<Message("user", GenPrompt(sc, ec, pref))>>,
                 <<Message("user", OpenAIGenPrompt(sc, ec, pref))>>,
                 300, Strip(t),
                 GenerateNavigationUrl(sc, ec, Strip(t)),
                 OpenAIGenerateNavigationUrl(sc, ec, Strip(t)))

NextEquiv ==
    \/ EquivParseNavigationRequest
    \/ EquivSelectMcpTool
    \/ EquivParseMcpResponse
    \/ EquivGenerateNavigationUrl

SpecEquiv == InitEquiv /\ [][NextEquiv]_vars

(***************************************************************************)
(* create_ai_provider: the factory reads the process environment.  An      *)
(* environment entry is [set, val]; val is a string as a sequence of       *)
(* pieces (single characters where the case of a letter matters).          *)
(***************************************************************************)
MaxSlashes == 2

Unset == [set |-> FALSE, val |-> <<>>]
EnvVal(v) == [set |-> TRUE, val |-> v]

UpperLetters == <<"A","B","C","D","E","F","G","H","I","J","K","L","M",
                  "N","O","P","Q","R","S","T","U","V","W","X","Y","Z">>
LowerLetters == <<"a","b","c","d","e","f","g","h","i","j","k","l","m",
                  "n","o","p","q","r","s","t","u","v","w","x","y","z">>

\* str.lower()
Lower(str) ==
    [i \in 1..Len(str) |->
        IF \E j \in 1..26 : UpperLetters[j] = str[i]
        THEN LowerLetters[CHOOSE j \in 1..26 : UpperLetters[j] = str[i]]
        ELSE str[i]]

\* str.rstrip('/')
RECURSIVE RStripSlash(_)
RStripSlash(str) ==
    IF str # <<>> /\ str[Len(str)] = "/"
    THEN RStripSlash(SubSeq(str, 1, Len(str) - 1))
    ELSE str

\* os.getenv(name) and os.getenv(name, default)
Getenv(environ, name) == environ[name]
GetenvDefault(environ, name, default) ==
    IF environ[name].set THEN environ[name].val ELSE default

ANTHROPIC == <<"a","n","t","h","r","o","p","i","c">>
OPENAI == <<"o","p","e","n","a","i">>
DefaultOpenAIModel == <<"gpt-3.5-turbo">>

RECURSIVE Slashes(_)
Slashes(n) == IF n = 0 THEN <<>> ELSE <<"/">> \o Slashes(n - 1)

ProviderSettings ==
    {Unset, EnvVal(<<>>), EnvVal(ANTHROPIC), EnvVal(OPENAI),
     EnvVal(<<"O","p","e","n","A","I">>),
     EnvVal(<<"A","N","T","H","R","O","P","I","C">>),
     EnvVal(<<"u","n","s","u","p","p","o","r","t","e","d">>)}
KeySettings == {Unset, EnvVal(<<>>), EnvVal(<<"test-key">>)}
BaseUrlSettings ==
    {Unset} \cup {EnvVal(Slashes(n)) : n \in 0..MaxSlashes}
            \cup {EnvVal(<<"https:", "/", "/", "api.test.com", "/", "v1">> \o Slashes(n)) :
                     n \in 0..MaxSlashes}
ModelSettings == {Unset, EnvVal(<<>>), EnvVal(<<"test-model">>)}

Environs ==
    [AI_PROVIDER : ProviderSettings, ANTHROPIC_API_KEY : KeySettings,
     OPENAI_API_KEY : KeySettings, OPENAI_BASE_URL : BaseUrlSettings,
     OPENAI_MODEL : ModelSettings]

NewClaudeProvider(api_key) ==
    [class |-> "ClaudeProvider", api_key |-> api_key, base_url |-> <<>>,
     model |-> <<ClaudeModel>>, context_history |-> <<>>, context_summary |-> ""]

\* the base URL stored as given
NewOpenAICompatibleProviderKeepingSlash(api_key, base_url, model) ==
    [class |-> "OpenAICompatibleProvider", api_key |-> api_key,
     base_url |-> base_url, model |-> model,
     context_history |-> <<>>, context_summary |-> ""]

NewOpenAICompatibleProvider(api_key, base_url, model) ==
    [class |-> "OpenAICompatibleProvider", api_key |-> api_key,
     base_url |-> RStripSlash(base_url), model |-> model,
     context_history |-> <<>>, context_summary |-> ""]

\* the OPENAI_BASE_URL check left out
CreateAiProviderUncheckedUrl(environ) ==
    LET provider_type == Lower(GetenvDefault(environ, "AI_PROVIDER", ANTHROPIC))
    IN  IF provider_type = ANTHROPIC
        THEN LET api_key == Getenv(environ, "ANTHROPIC_API_KEY")
             IN  IF ~api_key.set \/ api_key.val = <<>>
                 THEN Raise("ValueError", <<"ANTHROPIC_API_KEY environment variable not set">>)
                 ELSE Return(NewClaudeProvider(api_key.val))
        ELSE IF provider_type = OPENAI
        THEN LET api_key == Getenv(environ, "OPENAI_API_KEY")
                 base_url == Getenv(environ, "OPENAI_BASE_URL")
                 model == GetenvDefault(environ, "OPENAI_MODEL", DefaultOpenAIModel)
             IN  IF ~api_key.set \/ api_key.val = <<>>
                 THEN Raise("ValueError", <<"OPENAI_API_KEY environment variable not set">>)
                 ELSE Return(NewOpenAICompatibleProvider(api_key.val, base_url.val, model))
        ELSE Raise("ValueError", <<"Unsupported AI provider: ">> \o provider_type
                                  \o <<". Use 'anthropic' or 'openai'">>)

CreateAiProviderResult(environ) ==
    LET provider_type == Lower(GetenvDefault(environ, "AI_PROVIDER", ANTHROPIC))
    IN  IF provider_type = ANTHROPIC
        THEN LET api_key == Getenv(environ, "ANTHROPIC_API_KEY")
             IN  IF ~api_key.set \/ api_key.val = <<>>
                 THEN Raise("ValueError", <<"ANTHROPIC_API_KEY environment variable not set">>)
                 ELSE Return(NewClaudeProvider(api_key.val))
        ELSE IF provider_type = OPENAI
        THEN LET api_key == Getenv(environ, "OPENAI_API_KEY")
                 base_url == Getenv(environ, "OPENAI_BASE_URL")
                 model == GetenvDefault(environ, "OPENAI_MODEL", DefaultOpenAIModel)
             IN  IF ~api_key.set \/ api_key.val = <<>>
                 THEN Raise("ValueError", <<"OPENAI_API_KEY environment variable not set">>)
                 ELSE IF ~base_url.set \/ base_url.val = <<>>
                 THEN Raise("ValueError", <<"OPENAI_BASE_URL environment variable not set">>)
                 ELSE Return(NewOpenAICompatibleProvider(api_key.val, base_url.val, model))
        ELSE Raise("ValueError", <<"Unsupported AI provider: ">> \o provider_type
                                  \o <<". Use 'anthropic' or 'openai'">>)

\* the process starts with some environment and no provider
InitFactory ==
    /\ kind = "none"
    /\ context_history = <<>>
    /\ context_summary = ""
    /\ pc = "start"
    /\ \E environ \in Environs : call = [op |-> "create_ai_provider", environ |-> environ]
    /\ request = NoRequest
    /\ response_text = <<>>
    /\ outcome = NoOutcome
    /\ nav = NoNav

CreateAiProvider ==
    /\ pc = "start"
    /\ LET result == CreateAiProviderResult(call.environ)
       IN  /\ outcome' = result
           /\ kind' = IF result.status = "return"
                      THEN (IF result.value.class = "ClaudeProvider" THEN "claude" ELSE "openai")
                      ELSE "none"
    /\ pc' = "done"
    /\ UNCHANGED <<nav, context_history, context_summary, call, request, response_text>>

NextFactory == CreateAiProvider

SpecFactory == InitFactory /\ [][NextFactory]_vars

(***************************************************************************)
(* AINavigationSystem._parse_with_regex (main.py).  The input is a string  *)
(* as a sequence of characters; the Chinese characters the code names are  *)
(* spelled in pinyin: cong (U+4ECE), dao (U+5230), qu (U+53BB), bai du,    *)
(* gao de, di tu, daoh hang (U+5BFC U+822A), yong, bang wo, qing.          *)
(***************************************************************************)
MaxInputLen == 4

CONG == "cong"
DAO == "dao"
QU == "qu"
NL == "\n"
BAIDU == <<"bai", "du">>
GAODE == <<"gao", "de">>
DITU == <<"di", "tu">>
DAOHANG == <<"daoh", "hang">>
YONG == <<"yong">>
BANGWO == <<"bang", "wo">>
QING == <<"qing">>

\* the keyword list of the last loop, in its order
Keywords == <<BAIDU, GAODE, DITU, DAOHANG, YONG, BANGWO, QING>>

Whitespace == {SP, NL}

\* str.strip()
RECURSIVE PyLStrip(_)
PyLStrip(str) ==
    IF str # <<>> /\ Head(str) \in Whitespace THEN PyLStrip(Tail(str)) ELSE str

RECURSIVE PyRStrip(_)
PyRStrip(str) ==
    IF str # <<>> /\ str[Len(str)] \in Whitespace
    THEN PyRStrip(SubSeq(str, 1, Len(str) - 1))
    ELSE str

PyStrip(str) == PyRStrip(PyLStrip(str))

\* sub occurs in str at position i
OccursAt(str, sub, i) ==
    /\ i >= 1
    /\ i + Len(sub) - 1 <= Len(str)
    /\ \A j \in 1..Len(sub) : str[i + j - 1] = sub[j]

\* sub in str
Contains(str, sub) == \E i \in 1..(Len(str) + 1) : OccursAt(str, sub, i)

\* str.replace(sub, ""): occurrences taken from the left, not overlapping
RECURSIVE Remove(_, _)
Remove(str, sub) ==
    IF str = <<>> THEN <<>>
    ELSE IF OccursAt(str, sub, 1)
         THEN Remove(SubSeq(str, Len(sub) + 1, Len(str)), sub)
         ELSE <<Head(str)>> \o Remove(Tail(str), sub)

\* the positions where $ matches: the end, and before a final newline
AtEnd(str, p) ==
    \/ p = Len(str) + 1
    \/ p = Len(str) /\ str[p] = NL

\* (.+?)$ from position q: the last position of the group, 0 when no match
GroupToEnd(str, q) ==
    LET ends == {e \in q..Len(str) :
                    /\ \A i \in q..e : str[i] # NL
                    /\ AtEnd(str, e + 1)}
    IN  IF ends = {} THEN 0 ELSE CHOOSE e \in ends : \A f \in ends : e <= f

NoMatch == [found |-> FALSE, group1 |-> <<>>, group2 |-> <<>>]

\* re.search of  lead (.+?) sep (.+?) $ : the leftmost start, the shortest
\* first group; lead is <<>> or one character, sep is one character
SearchPattern(str, lead, sep) ==
    LET g(s) == s + Len(lead)
        Ok(s, k) ==
            /\ OccursAt(str, lead, s)
            /\ k >= g(s)
            /\ k + 2 <= Len(str)
            /\ \A i \in g(s)..k : str[i] # NL
            /\ str[k + 1] = sep
            /\ GroupToEnd(str, k + 2) # 0
        starts == {s \in 1..Len(str) : \E k \in 1..Len(str) : Ok(s, k)}
    IN  IF starts = {} THEN NoMatch
        ELSE LET s == CHOOSE x \in starts : \A y \in starts : x <= y
                 ks == {k \in 1..Len(str) : Ok(s, k)}
                 k == CHOOSE x \in ks : \A y \in ks : x <= y
             IN  [found |-> TRUE,
                  group1 |-> SubSeq(str, g(s), k),
                  group2 |-> SubSeq(str, k + 2, GroupToEnd(str, k + 2))]

\* re.search of (?:qu|dao|daohang dao|daohang qu)(.+?)$
SearchTrailing(str) ==
    LET heads == <<<<QU>>, <<DAO>>, DAOHANG \o <<DAO>>, DAOHANG \o <<QU>>>>
        Ok(s, a) == OccursAt(str, heads[a], s)
                        /\ GroupToEnd(str, s + Len(heads[a])) # 0
        starts == {s \in 1..Len(str) : \E a \in 1..4 : Ok(s, a)}
    IN  IF starts = {} THEN NoMatch
        ELSE LET s == CHOOSE x \in starts : \A y \in starts : x <= y
                 a == CHOOSE x \in 1..4 : Ok(s, x) /\ \A y \in 1..4 : Ok(s, y) => x <= y
                 q == s + Len(heads[a])
             IN  [found |-> TRUE, group1 |-> SubSeq(str, q, GroupToEnd(str, q)),
                  group2 |-> <<>>]

\* the ordered pattern list
Patterns == <<[lead |-> <<CONG>>, sep |-> DAO], [lead |-> <<CONG>>, sep |-> QU],
              [lead |-> <<>>, sep |-> DAO], [lead |-> <<>>, sep |-> QU]>>

\* the patterns tried in the order the caller gives; the first match wins
FirstMatch(str, order) ==
    LET hits == {i \in 1..Len(order) :
                    SearchPattern(str, Patterns[order[i]].lead, Patterns[order[i]].sep).found}
    IN  IF hits = {} THEN NoMatch
        ELSE LET i == CHOOSE x \in hits : \A y \in hits : x <= y
             IN  SearchPattern(str, Patterns[order[i]].lead, Patterns[order[i]].sep)

\* one pass of the keyword loop over one field: a value that is None or
\* empty is left alone
StripKeyword(v, keyword) ==
    IF v.jk = "str" /\ v.jv # <<>> THEN JStr(PyStrip(Remove(v.jv, keyword))) ELSE v

\* the keyword loop from the i-th keyword on (each pass works on the value
\* the pass before it left)
RECURSIVE StripKeywords(_, _)
StripKeywords(v, i) ==
    IF i > Len(Keywords) THEN v
    ELSE CHOOSE result \in {StripKeywords(w, i + 1) : w \in {StripKeyword(v, Keywords[i])}} :
            TRUE

\* the result dict, given the match of the pattern loop and the match of
\* the trailing-clause search
RegexResult(user_input, match, trailing) ==
    LET map_service ==
            IF Contains(user_input, BAIDU)
                  \/ Contains(Lower(user_input), <<"b", "a", "i", "d", "u">>)
            THEN <<"baidu">> ELSE <<"amap">>
        origin == IF match.found THEN JStr(PyStrip(match.group1)) ELSE JNull
        matched == IF match.found THEN JStr(PyStrip(match.group2)) ELSE JNull
        destination ==
            IF matched.jk = "null" \/ matched.jv = <<>>
            THEN (IF trailing.found THEN JStr(PyStrip(trailing.group1)) ELSE matched)
            ELSE matched
    IN  JObj(<< <<"origin", StripKeywords(origin, 1)>>,
                <<"destination", StripKeywords(destination, 1)>>,
                <<"map_service", JStr(map_service)>> >>)

ParseWithRegex(user_input) ==
    CHOOSE result \in {RegexResult(user_input, match, trailing) :
                          match \in {FirstMatch(user_input, <<1, 2, 3, 4>>)},
                          trailing \in {SearchTrailing(user_input)}} : TRUE

\* what a user may type: every short string over a few characters, and
\* some longer phrases
RegexAlphabet == {CONG, DAO, QU, "A", SP, "yong", "bang", "wo"}

RECURSIVE StringsUpTo(_, _)
StringsUpTo(alphabet, n) ==
    IF n = 0 THEN {<<>>}
    ELSE LET shorter == StringsUpTo(alphabet, n - 1)
         IN  shorter \cup {Append(str, c) : str \in {x \in shorter : Len(x) = n - 1},
                                            c \in alphabet}

Phrases ==
    {BANGWO \o YONG \o GAODE \o DITU \o DAOHANG \o <<CONG, "A", DAO, "B">>,
     YONG \o BAIDU \o DITU \o <<CONG, "A", QU, "B">>,
     <<"B", "a", "i", "d", "u", SP, CONG, "A", DAO, "B">>,
     <<CONG, "bang", "yong", "wo", DAO, "B">>,
     <<CONG, "daoh", "qing", "hang", DAO, "B">>,
     <<CONG, "A", QU, "B", DAO, SP>>,
     <<CONG, SP>> \o QING \o <<"A", SP, DAO, SP, "B">> \o QING \o <<SP>>,
     <<CONG, "A", DAO, "B", NL>>,
     <<CONG, "A", NL, DAO, "B">>,
     DAOHANG \o <<DAO, "B">>,
     QING \o DAOHANG \o <<QU, "B">>,
     <<"A", QU, "B", DAO, "C">>,
     <<"A", DAO>> \o BAIDU \o DITU}

UserTexts == StringsUpTo(RegexAlphabet, MaxInputLen) \cup Phrases

InitRegex ==
    /\ kind = "none"
    /\ context_history = <<>>
    /\ context_summary = ""
    /\ pc = "start"
    /\ \E u \in UserTexts : call = [op |-> "_parse_with_regex", user_input |-> u]
    /\ request = NoRequest
    /\ response_text = <<>>
    /\ outcome = NoOutcome
    /\ nav = NoNav

ParseWithRegexStep ==
    /\ pc = "start"
    /\ call.op = "_parse_with_regex"
    /\ outcome' = Return(ParseWithRegex(call.user_input))
    /\ pc' = "done"
    /\ UNCHANGED <<nav, kind, context_history, context_summary, call, request, response_text>>

NextRegex == ParseWithRegexStep

SpecRegex == InitRegex /\ [][NextRegex]_vars

(***************************************************************************)
(* AINavigationSystem (main.py): construction, intent parsing with the     *)
(* regex parser as fallback, and navigate.  nav.events is the trace of     *)
(* what one request did: warnings and messages printed, geocoding calls,   *)
(* the browser tool call and the browser launch.                           *)
(***************************************************************************)
\* a key as config.json holds it: missing or empty, the template
\* placeholder, or a real key
NoKey == ""
PlaceholderKey == "YOUR_KEY"
RealKey == "key"
KeyValues == {NoKey, PlaceholderKey, RealKey}

\* not key or "YOUR_" in key
Unusable(key) == key = NoKey \/ key = PlaceholderKey

DefaultConfig ==
    [provider |-> "absent", anthropic_installed |-> TRUE, apiKey |-> NoKey,
     accessKey |-> NoKey, apiUrl |-> ""]

\* the parts of config.json the AI side reads: ai.provider,
\* ai.anthropic.apiKey, ai.qiniu.apiUrl, qiniu.accessKey, and whether the
\* anthropic package can be imported
Configs ==
    {[DefaultConfig EXCEPT !.provider = "anthropic", !.anthropic_installed = i,
                           !.apiKey = k] : i \in BOOLEAN, k \in KeyValues}
    \cup {[DefaultConfig EXCEPT !.provider = p, !.accessKey = k, !.apiUrl = u] :
             p \in {"absent", "qiniu"}, k \in KeyValues,
             u \in {"", "https://api.qiniu.com/v1/ai/inference"}}
    \cup {[DefaultConfig EXCEPT !.provider = "openai"]}

\* _create_ai_client: never raises
CreateAiClient(config) ==
    LET provider == IF config.provider = "absent" THEN "qiniu" ELSE config.provider
    IN  IF provider = "anthropic"
        THEN (IF config.anthropic_installed /\ ~Unusable(config.apiKey)
              THEN "AsyncAnthropic" ELSE "None")
        ELSE IF provider = "qiniu" THEN "openai_compatible"
        ELSE "None"

\* the number of characters of a token, as far as cutting three off the
\* end of a text can tell (4 stands for four or more)
CharLen(t) ==
    IF t \in {LB, RB, LSQ, RSQ, COMMA, COLON, SP} \/ IsNumTok(t) THEN 1
    ELSE IF t = Quote("") THEN 2
    ELSE IF t = FENCE \/ t \in {Quote("A"), Quote("B"), Quote("3")} THEN 3
    ELSE 4

\* what is left of a token cut in the middle: no JSON token
CUT == "<cut>"

\* text[:-n]
RECURSIVE DropLastChars(_, _)
DropLastChars(text, n) ==
    IF n = 0 \/ text = <<>> THEN text
    ELSE LET last == text[Len(text)]
             front == SubSeq(text, 1, Len(text) - 1)
         IN  IF CharLen(last) <= n THEN DropLastChars(front, n - CharLen(last))
             ELSE Append(front, CUT)

\* result_text[7:-3].strip() after startswith of the fence with json,
\* result_text[3:-3].strip() after startswith of the fence
UnfenceAnswer(result_text) ==
    IF Len(result_text) >= 2 /\ result_text[1] = FENCE /\ result_text[2] = LANG
    THEN Strip(DropLastChars(SubSeq(result_text, 3, Len(result_text)), 3))
    ELSE IF result_text # <<>> /\ result_text[1] = FENCE
    THEN Strip(DropLastChars(Tail(result_text), 3))
    ELSE result_text

\* a parsed JSON value with its strings as character sequences, the form
\* the regex parser returns them in
RECURSIVE AsChars(_)
AsChars(v) ==
    IF v.jk = "str" THEN JStr(IF v.jv = "" THEN <<>> ELSE <<v.jv>>)
    ELSE IF v.jk = "obj"
         THEN JObj([i \in 1..Len(v.jv) |-> <<v.jv[i][1], AsChars(v.jv[i][2])>>])
    ELSE IF v.jk = "arr" THEN JArr([i \in 1..Len(v.jv) |-> AsChars(v.jv[i])])
    ELSE v

\* a failure answered with the empty intent in place of the regex parser
ParseAnswerEmptyOnFailure(text, user_input) ==
    LET loaded == JsonLoads(UnfenceAnswer(Strip(text)))
    IN  IF loaded.ok THEN [via |-> "ai", parsed |-> AsChars(loaded.val)]
        ELSE [via |-> "regex after failure",
              parsed |-> JObj(<< <<"origin", JNull>>, <<"destination", JNull>>,
                                 <<"map_service", JStr(<<"amap">>)>> >>)]

\* the part the two _parse_with_... methods share, from the backend text on:
\* strip, unfence, json.loads; any exception falls back to the regex parser
ParseAnswer(text, user_input) ==
    LET loaded == JsonLoads(UnfenceAnswer(Strip(text)))
    IN  IF loaded.ok THEN [via |-> "ai", parsed |-> AsChars(loaded.val)]
        ELSE [via |-> "regex after failure", parsed |-> ParseWithRegex(user_input)]

\* x is None in place of not x
FalsyNoneOnly(v) == v.jk = "null"

\* not x, for a value that came out of json.loads or the regex parser
Falsy(v) ==
    \/ v.jk = "null"
    \/ v.jk = "num" /\ v.jv = 0
    \/ v.jk \in {"str", "obj", "arr"} /\ v.jv = <<>>

\* what the user asks
NavInputs ==
    {<<CONG, "A", DAO, "B">>, <<QU, "B">>, <<"A">>, <<CONG, "A", DAO, SP>>,
     YONG \o BAIDU \o DITU \o <<CONG, "A", QU, "B">>}

\* what the AI backend may answer
IntentAnswerObjs ==
    {JObj(Member("origin", o) \o Member("destination", d) \o Member("map_service", m)) :
        o \in {Absent, JNull, JStr(""), JStr("A")},
        d \in {Absent, JNull, JStr(""), JStr("B")},
        m \in {Absent, JNull, JStr("amap"), JStr("baidu"), JStr("google")}}

IntentAnswerTexts ==
    {Dump(v) : v \in IntentAnswerObjs \cup {JNull, JArr(<<>>), JStr("B"), JNum(0)}}
    \cup UNION {{Fenced(Dump(v)), FencedLang(Dump(v)), InProse(Dump(v)),
                 <<FENCE, LANG, SP>> \o Dump(v)} :
                   v \in {JObj(<< <<"origin", JNull>>, <<"destination", JStr("B")>> >>),
                          JObj(<< <<"destination", JStr("")>> >>)}}
    \cup {<<NOISE>>}

\* what geocode may return for an address
GeoCoords ==
    {[longitude |-> 116, latitude |-> 39], [longitude |-> 0, latitude |-> 51]}

Event(name, detail) == <<name, detail>>

\* navigate from the parsed intent up to its first geocoding request
AfterParse(r, events) ==
    LET parsed == r.parsed
        origin == DictGet(parsed, "origin", JNull)
        destination == DictGet(parsed, "destination", JNull)
        map_service == DictGet(parsed, "map_service", JStr(<<"amap">>))
        base == [nav EXCEPT !.via = r.via, !.parsed = parsed,
                            !.origin_coords = JNull, !.dest_coords = JNull]
    IN  IF ~IsObj(parsed)
        THEN [pc |-> "done", nav |-> [base EXCEPT !.events = events],
              outcome |-> Raise("AttributeError", "object has no attribute 'get'")]
        ELSE IF Falsy(destination)
        THEN [pc |-> "done",
              nav |-> [base EXCEPT !.events =
                          Append(events, Event("print", "no destination"))],
              outcome |-> Return(JNull)]
        ELSE IF map_service.jk # "str"
        THEN [pc |-> "done", nav |-> [base EXCEPT !.events = events],
              outcome |-> Raise("AttributeError", "object has no attribute 'upper'")]
        ELSE IF ~Falsy(origin)
        THEN [pc |-> "geocoding origin",
              nav |-> [base EXCEPT !.events = Append(events, Event("geocode", origin))],
              outcome |-> NoOutcome]
        ELSE [pc |-> "geocoding destination",
              nav |-> [base EXCEPT !.events =
                          Append(events, Event("geocode", destination))],
              outcome |-> NoOutcome]

InitNav ==
    /\ kind = "none"
    /\ context_history = <<>>
    /\ context_summary = ""
    /\ pc = "new"
    /\ call = NoCall
    /\ request = NoRequest
    /\ response_text = <<>>
    /\ outcome = NoOutcome
    /\ \E config \in Configs : nav = [NoNav EXCEPT !.config = config]

\* AINavigationSystem(config)
NavConstruct ==
    /\ pc = "new"
    /\ nav' = [nav EXCEPT !.ai_client = CreateAiClient(nav.config)]
    /\ pc' = "ready"
    /\ UNCHANGED <<kind, context_history, context_summary, call, request,
                   response_text, outcome>>

\* navigate(user_input) up to its first await
NavigateStart ==
    /\ pc = "ready" \/ (pc = "done" /\ outcome.status = "return")
    /\ \E u \in NavInputs :
        /\ call' = [op |-> "navigate", user_input |-> u]
        /\ IF nav.ai_client = "None"
           THEN \E parsed \in {ParseWithRegex(u)} :
                \E next \in {AfterParse([via |-> "regex", parsed |-> parsed], <<>>)} :
                    pc' = next.pc /\ nav' = next.nav /\ outcome' = next.outcome
           ELSE IF nav.ai_client = "openai_compatible" /\ Unusable(nav.config.accessKey)
           THEN \E parsed \in {ParseWithRegex(u)} :
                \E next \in {AfterParse([via |-> "regex after missing key",
                                         parsed |-> parsed],
                                        <<Event("print", "no qiniu key")>>)} :
                    pc' = next.pc /\ nav' = next.nav /\ outcome' = next.outcome
           ELSE /\ pc' = "awaiting ai"
                /\ nav' = [nav EXCEPT !.via = "", !.parsed = JNull, !.events = <<>>,
                                      !.origin_coords = JNull, !.dest_coords = JNull]
                /\ outcome' = NoOutcome
    /\ response_text' = <<>>
    /\ UNCHANGED <<kind, context_history, context_summary, request>>

\* the backend answers
NavAiAnswer ==
    /\ pc = "awaiting ai"
    /\ nav.ai_client = "openai_compatible" => nav.config.apiUrl # ""
    /\ \E t \in IntentAnswerTexts :
        \E r \in {ParseAnswer(t, call.user_input)} :
        \E next \in {AfterParse(r, IF r.via = "ai" THEN <<>>
                                   ELSE <<Event("print", "ai parse failed")>>)} :
            /\ response_text' = t
            /\ pc' = next.pc /\ nav' = next.nav /\ outcome' = next.outcome
    /\ UNCHANGED <<kind, context_history, context_summary, call, request>>

\* the request fails: no URL, transport error, HTTP status, timeout
NavAiFailure ==
    /\ pc = "awaiting ai"
    /\ \E parsed \in {ParseWithRegex(call.user_input)} :
       \E next \in {AfterParse([via |-> "regex after failure", parsed |-> parsed],
                                <<Event("print", "ai parse failed")>>)} :
           pc' = next.pc /\ nav' = next.nav /\ outcome' = next.outcome
    /\ UNCHANGED <<kind, context_history, context_summary, call, request, response_text>>

\* f"{x}" of a coordinate: a float with no fraction, or None
FormatCoordinate(x) == IF x.jk = "num" THEN ToString(x.jv) \o ".0" ELSE "None"

\* urllib.parse.quote_plus of one piece of a parameter value
QuotePlus(piece) ==
    CASE piece = "," -> "%2C"
      [] piece = ":" -> "%3A"
      [] piece = "|" -> "%7C"
      [] piece = "qidian" -> "%E8%B5%B7%E7%82%B9"
      [] piece = "zhongdian" -> "%E7%BB%88%E7%82%B9"
      [] piece = "wodeweizhi" -> "%E6%88%91%E7%9A%84%E4%BD%8D%E7%BD%AE"
      [] OTHER -> piece

\* urllib.parse.urlencode(params): key=value pairs joined by '&'
RECURSIVE UrlEncode(_)
UrlEncode(params) ==
    IF params = <<>> THEN <<>>
    ELSE LET key == params[1][1]
             value == params[1][2]
         IN  <<key, "=">> \o [i \in 1..Len(value) |-> QuotePlus(value[i])]
                 \o (IF Len(params) > 1 THEN <<"&">> \o UrlEncode(Tail(params)) ELSE <<>>)

\* _build_amap_url
BuildAmapUrl(start_lng, start_lat, end_lng, end_lat) ==
    LET from_param ==
            IF ~Falsy(start_lng) /\ ~Falsy(start_lat)
            THEN <<FormatCoordinate(start_lng), ",", FormatCoordinate(start_lat)>>
            ELSE <<>>
        to_param == <<FormatCoordinate(end_lng), ",", FormatCoordinate(end_lat)>>
        params ==
            (IF from_param # <<>> THEN << <<"from", from_param>> >> ELSE <<>>)
            \o << <<"to", to_param>>, <<"policy", <<"1">>>>, <<"coordinate", <<"gaode">>>> >>
    IN  <<"https://uri.amap.com/navigation?">> \o UrlEncode(params)

\* _build_baidu_url
BuildBaiduUrl(start_lng, start_lat, end_lng, end_lat) ==
    LET origin ==
            IF ~Falsy(start_lng) /\ ~Falsy(start_lat)
            THEN <<"latlng", ":", FormatCoordinate(start_lat), ",",
                   FormatCoordinate(start_lng), "|", "name", ":", "qidian">>
            ELSE <<"wodeweizhi">>
        destination ==
            <<"latlng", ":", FormatCoordinate(end_lat), ",",
              FormatCoordinate(end_lng), "|", "name", ":", "zhongdian">>
    IN  <<"http://api.map.baidu.com/direction?">>
        \o UrlEncode(<< <<"origin", origin>>, <<"destination", destination>>,
                        <<"mode", <<"driving">>>>, <<"coord_type", <<"gcj02">>>> >>)

\* a coordinate of a geocoding result, None when there is no result
CoordinateOf(coords, field) ==
    IF coords = JNull THEN JNull ELSE JNum(coords[field])

\* call_tool("open_map_navigation", ...) and _open_map_navigation: the
\* browser is opened for amap and baidu only
OpenMapNavigation(events, start, end, map_service) ==
    LET start_lng == CoordinateOf(start, "longitude")
        start_lat == CoordinateOf(start, "latitude")
        end_lng == CoordinateOf(end, "longitude")
        end_lat == CoordinateOf(end, "latitude")
        called == Append(events,
                     Event("call_tool", [start_lng |-> start_lng, start_lat |-> start_lat,
                                         end_lng |-> end_lng, end_lat |-> end_lat,
                                         map_service |-> map_service]))
    IN  IF map_service.jv = <<"amap">>
        THEN Append(called, Event("webbrowser.open",
                                  BuildAmapUrl(start_lng, start_lat, end_lng, end_lat)))
        ELSE IF map_service.jv = <<"baidu">>
        THEN Append(called, Event("webbrowser.open",
                                  BuildBaiduUrl(start_lng, start_lat, end_lng, end_lat)))
        ELSE called

\* a failed origin lookup passed over: on to the destination without origin
NavOriginGeocodedLenient ==
    /\ pc = "geocoding origin"
    /\ \/ \E c \in GeoCoords :
            nav' = [nav EXCEPT !.origin_coords = c,
                       !.events = @ \o <<Event("geocoded", c),
                                         Event("geocode",
                                            DictGet(nav.parsed, "destination", JNull))>>]
       \/ nav' = [nav EXCEPT !.events = Append(@, Event("geocode",
                                            DictGet(nav.parsed, "destination", JNull)))]
    /\ pc' = "geocoding destination"
    /\ outcome' = outcome
    /\ UNCHANGED <<kind, context_history, context_summary, call, request, response_text>>

\* geocode(origin) returns or raises
NavOriginGeocoded ==
    /\ pc = "geocoding origin"
    /\ \/ \E c \in GeoCoords :
            /\ nav' = [nav EXCEPT !.origin_coords = c,
                          !.events = @ \o <<Event("geocoded", c),
                                            Event("geocode",
                                               DictGet(nav.parsed, "destination", JNull))>>]
            /\ pc' = "geocoding destination"
            /\ outcome' = outcome
       \/ /\ nav' = [nav EXCEPT !.events = Append(@, Event("print", "navigation failed"))]
          /\ pc' = "done"
          /\ outcome' = Return(JNull)
    /\ UNCHANGED <<kind, context_history, context_summary, call, request, response_text>>

\* geocode(destination) returns or raises; then the browser tool
NavDestinationGeocoded ==
    /\ pc = "geocoding destination"
    /\ \/ \E c \in GeoCoords :
            nav' = [nav EXCEPT !.dest_coords = c,
                       !.events = OpenMapNavigation(Append(@, Event("geocoded", c)),
                                      nav.origin_coords, c,
                                      DictGet(nav.parsed, "map_service", JStr(<<"amap">>)))]
       \/ nav' = [nav EXCEPT !.events = Append(@, Event("print", "navigation failed"))]
    /\ pc' = "done"
    /\ outcome' = Return(JNull)
    /\ UNCHANGED <<kind, context_history, context_summary, call, request, response_text>>

NextNav ==
    \/ NavConstruct
    \/ NavigateStart
    \/ NavAiAnswer
    \/ NavAiFailure
    \/ NavOriginGeocoded
    \/ NavDestinationGeocoded

SpecNav == InitNav /\ [][NextNav]_vars

(***************************************************************************)
(* LocationService (location_service.py): get_current_location and the     *)
(* sources it asks.  Strings that the code splits are sequences of pieces; *)
(* other field values are strings, ABSENT for a key the answer does not    *)
(* have and NULL for a JSON null.                                          *)
(***************************************************************************)
ABSENT == "<absent>"
NULL == "<null>"

\* pieces that float() accepts
FloatPieces == {"116.1", "39.1", "116.9", "39.9", "116.397128", "39.916527"}

\* dict.get(key, default) on an answer given as a record
Get(data, key, default) == IF data[key] = ABSENT THEN default ELSE data[key]

\* "not value" of a field
Empty(value) == value \in {"", NULL, ABSENT}

\* str.split(sep)
RECURSIVE Split(_, _)
Split(str, sep) ==
    IF \A i \in 1..Len(str) : str[i] # sep
    THEN <<str>>
    ELSE LET i == CHOOSE k \in 1..Len(str) :
                      str[k] = sep /\ \A j \in 1..(k - 1) : str[j] # sep
         IN  <<SubSeq(str, 1, i - 1)>> \o Split(SubSeq(str, i + 1, Len(str)), sep)

\* float(s) succeeds
IsFloat(s) == Len(s) = 1 /\ s[1] \in FloatPieces

\* the location dictionaries; formatted_address, which nothing reads, is left out
Location(name, longitude, latitude, province, city) ==
    [name |-> name, longitude |-> longitude, latitude |-> latitude,
     province |-> province, city |-> city]

\* the location _get_location_from_ip returns when every service failed
DefaultLocation == Location("dangqianweizhi", "116.397128", "39.916527", "", "")

\* an answer of a service: the request raised (timeout, connection, a body
\* that is not a JSON object), or it came back with a status code and a body
Failed == [raised |-> TRUE, status_code |-> 0, data |-> JNull]
Answered(status_code, data) == [raised |-> FALSE, status_code |-> status_code, data |-> data]

\* _get_location_from_amap from the answer on: everything is inside its try,
\* whose handler falls through to "return None"
AmapIpLocation(resp) ==
    IF resp.raised \/ resp.status_code # 200 THEN JNull
    ELSE LET data == resp.data
             rectangle == Split(data.rectangle, ";")
             coords == Split(rectangle[1], ",")
         IN  IF ~(data.status = "1" /\ data.rectangle # <<>>) THEN JNull
             ELSE IF Len(rectangle) < 2 \/ Len(coords) < 2 THEN JNull
             ELSE IF ~(IsFloat(coords[1]) /\ IsFloat(coords[2])) THEN JNull
             ELSE Location(Get(data, "city", "dangqianweizhi"),
                           coords[1][1], coords[2][1],
                           Get(data, "province", ""), Get(data, "city", ""))

\* _get_location_from_amap_precise from the answer of the geocoding request
\* to the end of its try: a location, or the exception that reaches the handler
AmapGeoLocation(resp, ip_location) ==
    IF resp.raised THEN Raise("Exception", "request")
    ELSE IF resp.status_code # 200 THEN Return(ip_location)
    ELSE LET data == resp.data
             geocode == data.geocodes[1]
             parts == Split(geocode.location, ",")
         IN  IF ~(data.status = "1" /\ data.geocodes # <<>>) THEN Return(ip_location)
             ELSE IF geocode.location = <<>> THEN Return(ip_location)
             ELSE IF Len(parts) # 2 THEN Raise("ValueError", "unpack")
             ELSE IF ~(IsFloat(parts[1]) /\ IsFloat(parts[2]))
                  THEN Raise("ValueError", "float")
             ELSE Return(Location(Get(geocode, "formatted_address", ip_location.city),
                                  parts[1][1], parts[2][1],
                                  Get(geocode, "province", ""), Get(geocode, "city", "")))

\* the services of _get_location_from_ip, in list order
Services == <<"ipapi.co", "ip-api.com", "ipinfo.io">>

\* float(data.get(key, default)) of a coordinate field
FloatField(data, key, default) ==
    LET v == Get(data, key, default)
    IN  IF v \in FloatPieces THEN Return(v) ELSE Raise("TypeError", "float")

\* one round of the loop of _get_location_from_ip from the answer on: the
\* location returned, or null when the loop goes on to the next service
IpLocation(service_url, resp) ==
    IF resp.raised \/ resp.status_code # 200 THEN JNull
    ELSE LET data == resp.data IN
         IF service_url = "ipapi.co" THEN
             LET city == IF Empty(Get(data, "city", ""))
                         THEN Get(data, "region", "dangqianweizhi")
                         ELSE data.city
                 lng == FloatField(data, "longitude", "116.397128")
                 lat == FloatField(data, "latitude", "39.916527")
             IN  IF lng.status = "raise" \/ lat.status = "raise" THEN JNull
                 ELSE Location(city, lng.value, lat.value, Get(data, "region", ""), city)
         ELSE IF service_url = "ip-api.com" THEN
             LET city == Get(data, "city", "dangqianweizhi")
                 lng == FloatField(data, "lon", "116.397128")
                 lat == FloatField(data, "lat", "39.916527")
             IN  IF lng.status = "raise" \/ lat.status = "raise" THEN JNull
                 ELSE Location(city, lng.value, lat.value, Get(data, "regionName", ""), city)
         ELSE
             LET city == Get(data, "city", "dangqianweizhi")
                 loc == IF data.loc = <<ABSENT>>
                        THEN <<"39.916527", ",", "116.397128">> ELSE data.loc
                 parts == Split(loc, ",")
             IN  IF Len(parts) # 2 THEN JNull
                 ELSE IF ~(IsFloat(parts[1]) /\ IsFloat(parts[2])) THEN JNull
                 ELSE Location(city, parts[2][1], parts[1][1], Get(data, "region", ""), city)

\* what the services may answer
AmapKeys == {NULL, "", "key"}
Providers == {"auto", "ip", "amap", "gps"}

Rectangles ==
    {<<>>, <<"116.1", ",", "39.1", ";", "116.9", ",", "39.9">>,
     <<"116.1", ",", "39.1">>, <<"x", ",", "39.1", ";", "116.9", ",", "39.9">>}

AmapIpAnswers ==
    {Failed, Answered(403, JNull)}
    \cup {Answered(200, [status |-> s, rectangle |-> r, city |-> c, province |-> "P"]) :
              s \in {"0", "1"}, r \in Rectangles, c \in {"", "C", ABSENT}}

Geocodes ==
    {[location |-> l, formatted_address |-> f, province |-> "P", city |-> "C"] :
         l \in {<<>>, <<"116.9", ",", "39.9">>, <<"116.9">>, <<"x", ",", "39.9">>},
         f \in {ABSENT, "F"}}

AmapGeoAnswers ==
    {Failed, Answered(500, JNull), Answered(200, [status |-> "0", geocodes |-> <<>>])}
    \cup {Answered(200, [status |-> "1", geocodes |-> <<g>>]) : g \in Geocodes}

IpData ==
    {[city |-> "C", region |-> "R", regionName |-> "R", longitude |-> "116.9",
      latitude |-> "39.9", lon |-> "116.9", lat |-> "39.9",
      loc |-> <<"39.9", ",", "116.9">>],
     [city |-> ABSENT, region |-> ABSENT, regionName |-> ABSENT, longitude |-> ABSENT,
      latitude |-> ABSENT, lon |-> ABSENT, lat |-> ABSENT, loc |-> <<ABSENT>>],
     [city |-> "C", region |-> "R", regionName |-> "R", longitude |-> NULL,
      latitude |-> NULL, lon |-> NULL, lat |-> NULL, loc |-> <<NULL>>]}

IpAnswers == {Failed, Answered(429, JNull)} \cup {Answered(200, d) : d \in IpData}

AmapIpUrl == "restapi.amap.com/v3/ip"
AmapGeoUrl == "restapi.amap.com/v3/geocode/geo"

\* one request and its answer
Asked(url, resp) == [url |-> url, resp |-> resp]

InitLocation ==
    /\ kind = "location"
    /\ context_history = <<>>
    /\ context_summary = ""
    /\ pc = "ready"
    /\ call = [NoCall EXCEPT !.op = "get_current_location"]
    /\ request = NoRequest
    /\ response_text = <<>>
    /\ outcome = NoOutcome
    /\ \E p \in Providers, k \in AmapKeys :
          nav = [provider |-> p, amap_api_key |-> k, asked |-> <<>>,
                 ip_location |-> JNull, handler |-> FALSE, service |-> 1]

\* get_current_location once _get_location_from_amap_precise returned
\* location to a caller that gives up on a null answer
AfterAmapPreciseGivingUp(location) ==
    [pc |-> "done", outcome |-> Return(location)]

\* get_current_location once _get_location_from_amap_precise returned location
AfterAmapPrecise(location) ==
    IF nav.provider = "auto" /\ location = JNull
    THEN [pc |-> "ip service", outcome |-> outcome]
    ELSE [pc |-> "done", outcome |-> Return(location)]

\* get_current_location up to the first request; without a key
\* _get_location_from_amap_precise returns None at once
GetCurrentLocation ==
    /\ pc = "ready"
    /\ \E next \in {IF nav.provider \in {"auto", "amap"} /\ ~Empty(nav.amap_api_key)
                    THEN [pc |-> "amap ip", outcome |-> outcome]
                    ELSE IF nav.provider = "amap"
                    THEN AfterAmapPrecise(JNull)
                    ELSE [pc |-> "ip service", outcome |-> outcome]} :
          /\ pc' = next.pc
          /\ outcome' = next.outcome
    /\ UNCHANGED <<nav, kind, context_history, context_summary, call, request, response_text>>

\* _get_location_from_amap answered: inside the try of
\* _get_location_from_amap_precise its result decides whether the geocoding
\* request follows, inside the handler it is the result
AmapIpAnswered ==
    /\ pc = "amap ip"
    /\ \E resp \in AmapIpAnswers :
       \E location \in {AmapIpLocation(resp)} :
       \E next \in {IF nav.handler \/ location = JNull \/ Empty(location.city)
                    THEN AfterAmapPrecise(location)
                    ELSE [pc |-> "amap geo", outcome |-> outcome]} :
          /\ pc' = next.pc
          /\ outcome' = next.outcome
          /\ nav' = [nav EXCEPT !.asked = Append(@, Asked(AmapIpUrl, resp)),
                                !.ip_location = IF nav.handler THEN @ ELSE location]
    /\ UNCHANGED <<kind, context_history, context_summary, call, request, response_text>>

\* the geocoding request of _get_location_from_amap_precise answered; an
\* exception takes the handler, which asks _get_location_from_amap again
AmapGeoAnswered ==
    /\ pc = "amap geo"
    /\ \E resp \in AmapGeoAnswers :
       \E r \in {AmapGeoLocation(resp, nav.ip_location)} :
       \E next \in {IF r.status = "raise"
                    THEN [pc |-> "amap ip", outcome |-> outcome]
                    ELSE AfterAmapPrecise(r.value)} :
          /\ pc' = next.pc
          /\ outcome' = next.outcome
          /\ nav' = [nav EXCEPT !.asked = Append(@, Asked(AmapGeoUrl, resp)),
                                !.handler = (r.status = "raise")]
    /\ UNCHANGED <<kind, context_history, context_summary, call, request, response_text>>

\* one service of _get_location_from_ip answered; every dictionary it
\* returns is non-empty, so get_current_location returns it
IpServiceAnswered ==
    /\ pc = "ip service"
    /\ \E resp \in IpAnswers :
       \E location \in {IpLocation(Services[nav.service], resp)} :
          /\ nav' = [nav EXCEPT !.asked = Append(@, Asked(Services[nav.service], resp)),
                                !.service = IF location = JNull /\ @ < Len(Services)
                                            THEN @ + 1 ELSE @]
          /\ IF location # JNull
             THEN pc' = "done" /\ outcome' = Return(location)
             ELSE IF nav.service < Len(Services)
             THEN pc' = pc /\ outcome' = outcome
             ELSE pc' = "done" /\ outcome' = Return(DefaultLocation)
    /\ UNCHANGED <<kind, context_history, context_summary, call, request, response_text>>

NextLocation ==
    \/ GetCurrentLocation
    \/ AmapIpAnswered
    \/ AmapGeoAnswered
    \/ IpServiceAnswered

\* every request carries a timeout of 10 seconds: a pending step is taken
SpecLocation == InitLocation /\ [][NextLocation]_vars /\ WF_vars(NextLocation)

(***************************************************************************)
(* Properties.                                                             *)
(***************************************************************************)
Done(op) == pc = "done" /\ call.op = op

C2_MissingKeyRaises ==
    Done("parse_navigation_request") =>
        /\ (outcome.status = "return" =>
                HasKey(outcome.value, "start") /\ HasKey(outcome.value, "end"))
        /\ \A o \in FlatObjs :
               (response_text = Dump(o) /\ ~(HasKey(o, "start") /\ HasKey(o, "end")))
                   => outcome.status = "raise"

\* C3: whenever the text is a JSON value (the answer) bare, inside prose or
\* inside a fence, the extractor returns that whole value or raises; it
\* never returns a part of it.
C3_WholeAnswerOrFailure ==
    Done("_parse_json_response") =>
        \A v \in JsonVals :
            (response_text \in Wrappings(Dump(v)) /\ outcome.status = "return")
                => outcome.value = v

\* C4: extract(dump(O)) = O for every object O, nested ones included, and
\* extract("noise " + dump(O) + " noise") = O for every flat object O.
C4_RoundTrip ==
    Done("_parse_json_response") =>
        /\ \A o \in Objs : response_text = Dump(o) => outcome = Return(o)
        /\ \A o \in FlatObjs :
               response_text = InProse(Dump(o)) => outcome = Return(o)

\* C5: every failure of the extractor is the ValueError "Failed to parse AI
\* response", whether no {...} substring was found or the substring found
\* is not valid JSON.
C5_OneErrorKind ==
    (Done("_parse_json_response") /\ outcome.status = "raise") =>
        (outcome.exc = "ValueError" /\ outcome.msg = "Failed to parse AI response")

\* C6: a valid object wrapped in a code fence, with or without a language
\* tag, is returned by the extractor with the fence stripped, for every
\* object, a tool selection with an object-valued 'arguments' included.
C6_FenceStripped ==
    Done("_parse_json_response") =>
        \A o \in Objs :
            response_text \in {Fenced(Dump(o)), FencedLang(Dump(o))}
                => outcome = Return(o)

\* C7: when the backend text is a well-formed object {tool_name, arguments,
\* reasoning}, select_mcp_tool of either provider, with or without the
\* context argument, returns a selection with exactly that tool_name and
\* those arguments, and with a reasoning field.
C7_SelectionReturned ==
    Done("select_mcp_tool") =>
        \A t \in ToolNames, a \in ArgObjs :
            response_text = Dump(ToolSel(t, a)) =>
                /\ outcome.status = "return"
                /\ IsObj(outcome.value)
                /\ DictGet(outcome.value, "tool_name", JNull) = JStr(t)
                /\ DictGet(outcome.value, "arguments", JNull) = a
                /\ HasKey(outcome.value, "reasoning")

C7_Witness ==
    /\ Done("select_mcp_tool")
    /\ kind = "claude"
    /\ call.context # JNull
    /\ response_text = Dump(ToolSel("geocode", JObj(<< <<"address", JStr("A")>> >>)))
    /\ outcome.status = "return"
    /\ DictGet(outcome.value, "arguments", JNull) = JObj(<< <<"address", JStr("A")>> >>)

\* the descriptor of the catalog that has the given name, if any
InCatalog(tools, name) ==
    \E i \in 1..Len(tools.jv) : DictGet(tools.jv[i], "name", JNull) = JStr(name)

RequiredOf(tools, name) ==
    LET d == tools.jv[CHOOSE i \in 1..Len(tools.jv) :
                          DictGet(tools.jv[i], "name", JNull) = JStr(name)]
        req == DictGet(DictGet(d, "inputSchema", EmptyObj), "required", JArr(<<>>)).jv
    IN  {req[i].jv : i \in 1..Len(req)}

ValidSelection(sel, tools) ==
    /\ IsObj(sel)
    /\ DictGet(sel, "tool_name", JNull).jk = "str"
    /\ InCatalog(tools, DictGet(sel, "tool_name", JNull).jv)
    /\ \A r \in RequiredOf(tools, DictGet(sel, "tool_name", JNull).jv) :
           HasKey(DictGet(sel, "arguments", EmptyObj), r)

\* C8: a selection whose tool_name is in no descriptor of the catalog of the
\* call, or whose arguments lack a required property, is never returned by
\* select_mcp_tool.
C8_InvalidSelectionRejected ==
    (Done("select_mcp_tool") /\ outcome.status = "return")
        => ValidSelection(outcome.value, call.tools)

\* the query parameters of a URL given as its pieces: key |-> value pieces
ParamEnd(url, i) ==
    IF \E j \in i..Len(url) : url[j] = "&"
    THEN (CHOOSE j \in i..Len(url) :
              url[j] = "&" /\ \A m \in i..(j - 1) : url[m] # "&") - 1
    ELSE Len(url)

QueryKeys(url) == {url[i - 1] : i \in {j \in 2..Len(url) : url[j] = "="}}

QueryValue(url, k) ==
    LET i == CHOOSE i \in 2..Len(url) :
                 /\ url[i] = "=" /\ url[i - 1] = k
                 /\ \A m \in 2..(i - 1) : ~(url[m] = "=" /\ url[m - 1] = k)
    IN  SubSeq(url, i + 1, ParamEnd(url, i))

\* C9: whatever object the backend chose, generate_navigation_url returns,
\* and the URL has the query parameters from, to, mode, policy and
\* callnative, with from = "<start longitude>,<start latitude>" and
\* to = "<end longitude>,<end latitude>" of the coordinates supplied.
C9_UrlParameters ==
    Done("generate_navigation_url") =>
        /\ (\E o \in ParamObjs : response_text = Dump(o))
               => outcome.status = "return"
        /\ outcome.status = "return" =>
               LET url == DictGet(outcome.value, "url", JNull).jv
               IN  /\ {"from", "to", "mode", "policy", "callnative"} \subseteq QueryKeys(url)
                   /\ QueryValue(url, "from") =
                          <<ToString(call.start_coords.longitude), ",",
                            ToString(call.start_coords.latitude)>>
                   /\ QueryValue(url, "to") =
                          <<ToString(call.end_coords.longitude), ",",
                            ToString(call.end_coords.latitude)>>

C9_Witness ==
    /\ Done("generate_navigation_url")
    /\ call.start_coords = Coords("A B", 2, 1)
    /\ call.end_coords = Coords("B", 1, 2)
    /\ response_text = Dump(JObj(<< <<"mode", JStr("walk")>>, <<"policy", JStr("3")>> >>))
    /\ outcome.status = "return"
    /\ QueryValue(DictGet(outcome.value, "url", JNull).jv, "from") = <<"2", ",", "1">>
    /\ QueryValue(DictGet(outcome.value, "url", JNull).jv, "mode") = <<"walk">>

\* C10: an intent returned by AIIntentParser.parse has mode in {driving,
\* walking, bicycling} and policy in {0, 1, 2, 4}.
C10_ClosedEnumerations ==
    (Done("parse") /\ outcome.status = "return") =>
        /\ DictGet(outcome.value, "mode", JNull) \in
               {JStr("driving"), JStr("walking"), JStr("bicycling")}
        /\ DictGet(outcome.value, "policy", JNull) \in
               {JNum(0), JNum(1), JNum(2), JNum(4)}


\* C12: for a history of n entries, the messages parse_navigation_request
\* hands to the backend are the last min(n, 3) entries in their order,
\* followed by exactly one user message that carries the prompt.
C12_LastThreeSent ==
    [][(pc = "idle" /\ call'.op = "parse_navigation_request") =>
          LET n == Len(context_history)
              k == IF n < 3 THEN n ELSE 3
              m == request'.messages
          IN  /\ Len(m) = k + 1
              /\ \A i \in 1..k : m[i] = context_history[n - k + i]
              /\ m[k + 1] = Message("user", NavPrompt(call'.user_input, context_summary))]_vars

C12_Witness ==
    /\ Done("parse_navigation_request")
    /\ kind = "claude"
    /\ Len(context_history) = 4
    /\ context_history[1] # context_history[4]
    /\ Len(request.messages) = 4
    /\ request.messages[1] = context_history[2]
    /\ request.messages[3] = context_history[4]

\* C13: a step of any of the four operations -- the request, the answer, a
\* malformed answer, a transport error -- leaves context_history and
\* context_summary as they are; only set_context and clear_context, which
\* touch nothing else, change them.
C13_ContextFrame ==
    [][(pc' # pc \/ call' # call \/ request' # request \/ outcome' # outcome) =>
          UNCHANGED <<context_history, context_summary>>]_vars

C13_Witness ==
    /\ Done("parse_navigation_request")
    /\ kind = "openai"
    /\ outcome = Raise("TimeoutException", "transport")
    /\ Len(context_history) = 2
    /\ context_summary = "summary"

\* all pieces of all messages of a request
PiecesOf(m) == UNION {{m[i].content[j] : j \in 1..Len(m[i].content)} : i \in 1..Len(m)}

\* C14: every provider call made while a context is set carries it: the
\* most recent history entries are among the messages and the summary is
\* in the prompt.
C14_ContextInEveryCall ==
    [][(pc = "idle" /\ pc' # "idle") =>
          /\ context_history # <<>> =>
                 \E i \in 1..Len(request'.messages) :
                     request'.messages[i] = context_history[Len(context_history)]
          /\ context_summary # "" =>
                 ContextStr(context_summary) \in PiecesOf(request'.messages)]_vars

\* C16: a network failure of the backend call reaches the caller as one
\* wrapped error type, never as an error of the transport library in use.
C16_OneWrappedError ==
    (pc = "done" /\ outcome.status = "raise" /\ outcome.msg = "transport") =>
        outcome.exc \notin (ClaudeErrors \cup OpenAIErrors)


\* C15: given the same arguments, the same context and the same backend
\* text, ClaudeProvider and OpenAICompatibleProvider build the same message
\* list (hence the same prompt) and end in the same result or the same
\* failure, for each of the four operations.
C15_ProvidersAgree ==
    pc = "done" =>
        /\ request[1].messages = request[2].messages
        /\ outcome[1] = outcome[2]

C15_Witness ==
    /\ pc = "done"
    /\ call.op = "generate_navigation_url"
    /\ response_text = Fenced(Dump(JObj(<< <<"mode", JStr("walk")>> >>)))
    /\ outcome[2].status = "return"
    /\ outcome[1] = outcome[2]

C15_WitnessFailure ==
    /\ pc = "done"
    /\ call.op = "parse_navigation_request"
    /\ Len(context_history) = 4
    /\ outcome[2] = Raise("JSONDecodeError", "Expecting value")


\* what the factory was given
Provider == call.environ.AI_PROVIDER
Missing(name) == ~call.environ[name].set \/ call.environ[name].val = <<>>
Refused == outcome.status = "raise" /\ outcome.exc = "ValueError"
                /\ kind = "none" /\ request = NoRequest

\* C17 as stated: create_ai_provider raises a configuration error, builds no
\* provider and makes no network call whenever AI_PROVIDER is a value other
\* than 'anthropic'/'openai', or is anthropic with ANTHROPIC_API_KEY unset or
\* empty, or is openai with OPENAI_API_KEY or OPENAI_BASE_URL unset or empty.
C17_BadConfigurationRefused ==
    (pc = "done" /\
        \/ Provider.set /\ Provider.val \notin {ANTHROPIC, OPENAI}
        \/ Provider = EnvVal(ANTHROPIC) /\ Missing("ANTHROPIC_API_KEY")
        \/ Provider = EnvVal(OPENAI)
              /\ (Missing("OPENAI_API_KEY") \/ Missing("OPENAI_BASE_URL")))
    => Refused

\* C17 amended: the same with AI_PROVIDER compared without regard to the
\* case of its letters (the factory lower-cases it before comparing).
C17_BadConfigurationRefusedAnyCase ==
    (pc = "done" /\
        \/ Provider.set /\ Lower(Provider.val) \notin {ANTHROPIC, OPENAI}
        \/ Provider.set /\ Lower(Provider.val) = ANTHROPIC /\ Missing("ANTHROPIC_API_KEY")
        \/ Provider.set /\ Lower(Provider.val) = OPENAI
              /\ (Missing("OPENAI_API_KEY") \/ Missing("OPENAI_BASE_URL")))
    => Refused

C17_Witness ==
    /\ pc = "done"
    /\ Provider = EnvVal(OPENAI)
    /\ ~Missing("OPENAI_API_KEY")
    /\ call.environ.OPENAI_BASE_URL = EnvVal(<<>>)
    /\ Refused

\* C18: with complete credentials the factory returns a ClaudeProvider when
\* AI_PROVIDER is 'anthropic' or unset, and an OpenAICompatibleProvider when
\* it is 'openai', whose model is OPENAI_MODEL (or 'gpt-3.5-turbo' when
\* unset) and whose base_url is OPENAI_BASE_URL without its trailing '/'.
C18_ProviderSelected ==
    pc = "done" =>
        /\ ((Provider = EnvVal(ANTHROPIC) \/ ~Provider.set) /\ ~Missing("ANTHROPIC_API_KEY"))
              => /\ outcome.status = "return"
                 /\ outcome.value.class = "ClaudeProvider"
                 /\ kind = "claude"
        /\ (Provider = EnvVal(OPENAI) /\ ~Missing("OPENAI_API_KEY") /\ ~Missing("OPENAI_BASE_URL"))
              => /\ outcome.status = "return"
                 /\ outcome.value.class = "OpenAICompatibleProvider"
                 /\ kind = "openai"
                 /\ outcome.value.model =
                        (IF call.environ.OPENAI_MODEL.set
                         THEN call.environ.OPENAI_MODEL.val ELSE <<"gpt-3.5-turbo">>)
                 /\ LET url == outcome.value.base_url
                        given == call.environ.OPENAI_BASE_URL.val
                    IN  /\ url = <<>> \/ url[Len(url)] # "/"
                        /\ \E n \in 0..Len(given) : given = url \o Slashes(n)

C18_Witness ==
    /\ pc = "done"
    /\ Provider = EnvVal(OPENAI)
    /\ ~call.environ.OPENAI_MODEL.set
    /\ call.environ.OPENAI_BASE_URL.val = <<"https:", "/", "/", "api.test.com", "/", "v1", "/">>
    /\ outcome.status = "return"
    /\ outcome.value.base_url = <<"https:", "/", "/", "api.test.com", "/", "v1">>
    /\ outcome.value.model = <<"gpt-3.5-turbo">>


\* a string with the occurrences of the stopwords taken out, in one pass
RECURSIVE WithoutStopwords(_)
WithoutStopwords(str) ==
    IF str = <<>> THEN <<>>
    ELSE IF \E i \in 1..Len(Keywords) : OccursAt(str, Keywords[i], 1)
         THEN LET i == CHOOSE x \in 1..Len(Keywords) : OccursAt(str, Keywords[x], 1)
              IN  WithoutStopwords(SubSeq(str, Len(Keywords[i]) + 1, Len(str)))
         ELSE <<Head(str)>> \o WithoutStopwords(Tail(str))

\* the match of 'cong X dao Y', else of 'cong X qu Y'
FromToMatch(str) == FirstMatch(str, <<1, 2>>)

\* C20: on every input that matches 'cong X dao Y' or 'cong X qu Y' the
\* regex parser returns origin = X and destination = Y, each with every
\* occurrence of the stopwords removed and surrounding whitespace trimmed.
C20_FromToStripped ==
    (pc = "done" /\ call.op = "_parse_with_regex" /\ FromToMatch(call.user_input).found) =>
        LET m == FromToMatch(call.user_input)
        IN  /\ DictGet(outcome.value, "origin", JNull)
                  = JStr(PyStrip(WithoutStopwords(m.group1)))
            /\ DictGet(outcome.value, "destination", JNull)
                  = JStr(PyStrip(WithoutStopwords(m.group2)))


\* the names of the events of the current request
EventNames == {nav.events[i][1] : i \in 1..Len(nav.events)}

\* C11: whenever the parsed intent has a missing, null or empty destination
\* the request ends with the 'no destination' message, and no geocoding call
\* and no browser launch is made for it.
C11_NoDestinationStops ==
    (call.op = "navigate" /\ IsObj(nav.parsed) /\ nav.via # ""
        /\ DictGet(nav.parsed, "destination", JNull) \in {JNull, JStr(<<>>)})
    => /\ pc = "done"
       /\ outcome = Return(JNull)
       /\ nav.events[Len(nav.events)] = Event("print", "no destination")
       /\ EventNames \cap {"geocode", "call_tool", "webbrowser.open"} = {}

C11_Witness ==
    /\ pc = "done"
    /\ call.op = "navigate"
    /\ nav.via = "ai"
    /\ nav.parsed = JObj(<< <<"origin", JStr(<<"A">>)>>, <<"destination", JStr(<<>>)>> >>)
    /\ nav.events = <<Event("print", "no destination")>>


\* a required option of the configured AI provider is absent
MissingRequired(config) ==
    \/ config.provider = "anthropic" /\ config.apiKey = NoKey
    \/ config.provider \in {"absent", "qiniu"}
          /\ (config.accessKey = NoKey \/ config.apiUrl = "")

\* C19: when a required AI configuration option (API key, access key or
\* URL of the configured provider) is absent, constructing the navigation
\* system fails; the system never starts and never answers a request
\* through the regex parser.
C19_MissingOptionFatal ==
    (nav.config \in Configs /\ MissingRequired(nav.config)) =>
        /\ pc = "new" \/ (call.op # "navigate" /\ outcome.status = "raise")
        /\ nav.via \notin {"regex", "regex after missing key", "regex after failure"}


\* C21: the regex parser returns for every input without raising, and when
\* no destination can be obtained from the input (also when the extracted
\* span holds nothing but stopwords) the returned destination is null: the
\* destination is never an empty string.
C21_NoDestinationIsNull ==
    (pc = "done" /\ call.op = "_parse_with_regex") =>
        /\ outcome.status = "return"
        /\ DictGet(outcome.value, "destination", JNull) # JStr(<<>>)


\* the match of the i-th pattern alone
PatternMatch(str, i) == SearchPattern(str, Patterns[i].lead, Patterns[i].sep)

\* a matched group as a result field: trimmed, then through the keyword loop
Field(group) == StripKeywords(JStr(PyStrip(group)), 1)

\* C25: the patterns are tried in the order 'cong A dao B', 'cong A qu B',
\* 'A dao B', 'A qu B' and the first that matches is used; a later pattern
\* is used only when every earlier one fails; the trailing clause is
\* consulted only when none of the four yielded a destination, and then
\* origin stays null.
C25_PatternOrder ==
    (pc = "done" /\ call.op = "_parse_with_regex") =>
        LET u == call.user_input
            origin == DictGet(outcome.value, "origin", JNull)
            destination == DictGet(outcome.value, "destination", JNull)
            yielded == \E i \in 1..4 : PatternMatch(u, i).found
                          /\ PyStrip(PatternMatch(u, i).group2) # <<>>
        IN  /\ \A i \in 1..4 :
                  (PatternMatch(u, i).found /\ \A j \in 1..(i - 1) : ~PatternMatch(u, j).found)
                      => /\ origin = Field(PatternMatch(u, i).group1)
                         /\ PyStrip(PatternMatch(u, i).group2) # <<>>
                               => destination = Field(PatternMatch(u, i).group2)
            /\ (~yielded /\ SearchTrailing(u).found)
                  => /\ destination = Field(SearchTrailing(u).group1)
                     /\ origin = JNull
            /\ (~yielded /\ ~SearchTrailing(u).found)
                  => destination \in {JNull, JStr(<<>>)}


\* the backend text of the current request is no JSON once stripped and
\* taken out of its fence
AnswerMalformed ==
    response_text # <<>> /\ ~JsonLoads(UnfenceAnswer(Strip(response_text))).ok

\* C26: parse_navigation_intent always returns: when no AI client is
\* configured, when the request fails, or when the answer is not valid JSON
\* after fence stripping, the intent is the regex parser's result for the
\* same input.
C26_FallbackIsRegexResult ==
    (call.op = "navigate" /\ pc \notin {"new", "ready", "awaiting ai"}) =>
        /\ nav.via # ""
        /\ (nav.ai_client = "None" \/ AnswerMalformed
               \/ (nav.ai_client # "None" /\ response_text = <<>>))
              => nav.parsed = ParseWithRegex(call.user_input)

C26_Witness ==
    /\ pc = "geocoding origin"
    /\ call.user_input = <<CONG, "A", DAO, "B">>
    /\ nav.ai_client = "AsyncAnthropic"
    /\ response_text = InProse(Dump(JObj(<< <<"destination", JStr("")>> >>)))
    /\ nav.via = "regex after failure"
    /\ DictGet(nav.parsed, "destination", JNull) = JStr(<<"B">>)


\* C22: navigate never lets an exception escape: whatever the parse result
\* (a null map_service, an answer that is JSON but no object) and whatever
\* fails in geocoding or the browser, it ends normally.
C22_NavigateNeverRaises ==
    (pc = "done" /\ call.op = "navigate") => outcome.status = "return"


\* the positions of the events of one name in the trace of the request
EventsNamed(name) == {i \in 1..Len(nav.events) : nav.events[i][1] = name}

\* a geocoding call that has ended without a result
GeocodeFailed ==
    \E i \in EventsNamed("geocode") :
        /\ i < Len(nav.events) \/ pc = "done"
        /\ i = Len(nav.events) \/ nav.events[i + 1][1] # "geocoded"

\* C27: within one navigate request: intent extraction, then geocoding of
\* the origin (only if an origin was extracted), then geocoding of the
\* destination, then the browser launch; the launch happens at most once,
\* only after the destination geocode succeeded, and never when a geocoding
\* call failed.
C27_StepOrder ==
    call.op = "navigate" =>
        LET origin == DictGet(nav.parsed, "origin", JNull)
            destination == DictGet(nav.parsed, "destination", JNull)
            calls == EventsNamed("geocode")
            launches == EventsNamed("webbrowser.open")
        IN  /\ calls # {} => nav.via # "" /\ IsObj(nav.parsed)
            /\ \A i \in calls :
                  \/ /\ nav.events[i][2] = origin
                     /\ ~Falsy(origin)
                     /\ \A j \in calls : i <= j
                  \/ /\ nav.events[i][2] = destination
                     /\ \A j \in calls : j <= i
                     /\ ~Falsy(origin) =>
                           \E j \in calls : j < i /\ nav.events[j][2] = origin
                                               /\ nav.events[j + 1][1] = "geocoded"
            /\ Cardinality(calls) <= 2
            /\ Cardinality(launches) <= 1
            /\ \A l \in launches :
                  /\ \A i \in calls : i < l
                  /\ \E i \in calls : /\ i < l
                                      /\ nav.events[i][2] = destination
                                      /\ nav.events[i + 1][1] = "geocoded"
                                      /\ nav.events[i + 1][2] = nav.dest_coords
            /\ GeocodeFailed => launches = {}

C27_Witness ==
    /\ pc = "done"
    /\ call.op = "navigate"
    /\ nav.via = "ai"
    /\ Len(nav.events) = 6
    /\ nav.events[1] = Event("geocode", JStr(<<"A">>))
    /\ nav.events[2][1] = "geocoded"
    /\ nav.events[3] = Event("geocode", JStr(<<"B">>))
    /\ nav.events[4][1] = "geocoded"
    /\ nav.events[5][1] = "call_tool"
    /\ nav.events[6][1] = "webbrowser.open"

C27_WitnessFailure ==
    /\ pc = "done"
    /\ call.op = "navigate"
    /\ GeocodeFailed
    /\ Len(nav.events) = 4
    /\ nav.events[4] = Event("print", "navigation failed")


\* C28: when the backend's object omits mode, policy or callnative,
\* generate_navigation_url still returns and uses mode 'car', policy 1,
\* callnative 1; and whenever it returns, the mode, policy and callnative
\* of the result are the values written into the URL.
C28_DefaultsAndUrlAgree ==
    Done("generate_navigation_url") =>
        /\ \A o \in ParamObjs :
              response_text = Dump(o) =>
                 /\ outcome.status = "return"
                 /\ ~HasKey(o, "mode") => DictGet(outcome.value, "mode", JNull) = JStr("car")
                 /\ ~HasKey(o, "policy") => DictGet(outcome.value, "policy", JNull) = JNum(1)
                 /\ ~HasKey(o, "callnative") =>
                        DictGet(outcome.value, "callnative", JNull) = JNum(1)
        /\ outcome.status = "return" =>
              LET url == DictGet(outcome.value, "url", JNull).jv
              IN  \A k \in {"mode", "policy", "callnative"} :
                      /\ HasKey(outcome.value, k)
                      /\ QueryValue(url, k) = <<PyFormat(DictGet(outcome.value, k, JNull))>>

C28_Witness ==
    /\ Done("generate_navigation_url")
    /\ response_text = Dump(JObj(<< <<"mode", JStr("walk")>> >>))
    /\ outcome.status = "return"
    /\ DictGet(outcome.value, "policy", JNull) = JNum(1)
    /\ QueryValue(DictGet(outcome.value, "url", JNull).jv, "policy") = <<"1">>
    /\ QueryValue(DictGet(outcome.value, "url", JNull).jv, "callnative") = <<"1">>


\* the URL the browser was opened with, and the arguments of the tool call
Launched == EventsNamed("webbrowser.open") # {}
LaunchedUrl == nav.events[CHOOSE i \in EventsNamed("webbrowser.open") : TRUE][2]
ToolArguments == nav.events[CHOOSE i \in EventsNamed("call_tool") : TRUE][2]

\* a query value with the percent escape of the comma undone
Unescaped(value) == [i \in 1..Len(value) |-> IF value[i] = "%2C" THEN "," ELSE value[i]]

\* C29: the Amap URL has a 'from' parameter exactly when start_lng and
\* start_lat were both supplied (are not null), also when one of them is 0,
\* and its value is '<start_lng>,<start_lat>'; 'to' is always
\* '<end_lng>,<end_lat>'.
C29_AmapFromWhenSupplied ==
    (Launched /\ ToolArguments.map_service.jv = <<"amap">>) =>
        LET a == ToolArguments
            supplied == a.start_lng # JNull /\ a.start_lat # JNull
        IN  /\ "from" \in QueryKeys(LaunchedUrl) <=> supplied
            /\ supplied =>
                  Unescaped(QueryValue(LaunchedUrl, "from"))
                      = <<FormatCoordinate(a.start_lng), ",", FormatCoordinate(a.start_lat)>>
            /\ Unescaped(QueryValue(LaunchedUrl, "to"))
                      = <<FormatCoordinate(a.end_lng), ",", FormatCoordinate(a.end_lat)>>


\* C23: set_context or clear_context run by another task while
\* parse_navigation_request is suspended on its backend request leaves the
\* suspended call as it is: the history entries and the summary of its
\* request were both read from the context of the step that sent it, and
\* neither the request nor the call changes until the answer is in.
C23_SuspendedCallUnaffected ==
    [][/\ (pc = "idle" /\ pc' = "awaiting"
              /\ call'.op = "parse_navigation_request") =>
            request'.messages =
                Append(LastThree(context_history),
                       Message("user", NavPrompt(call'.user_input, context_summary)))
       /\ (pc = "awaiting" /\ call.op = "parse_navigation_request") =>
            /\ request' = request
            /\ call' = call
            /\ pc' = "done" =>
                  \/ outcome' = NavFinish(response_text')
                  \/ outcome'.status = "raise"]_vars

\* the context was replaced while the call was suspended, and the call
\* returned with the request it had built before
C23_Witness ==
    /\ Done("parse_navigation_request")
    /\ kind = "openai"
    /\ outcome.status = "return"
    /\ Len(context_history) = 2
    /\ context_summary = ""
    /\ Len(request.messages) = 4
    /\ request.messages[4] = Message("user", NavPrompt(call.user_input, "summary"))


\* C24: every provider operation, of either provider, is suspended at its
\* backend call: a call that starts is next found waiting for the answer,
\* a state in which other work on the same runtime can take steps.
C24_EveryCallSuspends ==
    [][(pc = "idle" /\ pc' # "idle") => pc' = "awaiting"]_vars


\* the requests made so far, and the part of them that went to Amap
AskedUrls == [i \in 1..Len(nav.asked) |-> nav.asked[i].url]
AmapAsked == SelectSeq(AskedUrls, LAMBDA u : u \in {AmapIpUrl, AmapGeoUrl})
IpAsked == SelectSeq(AskedUrls, LAMBDA u : u \notin {AmapIpUrl, AmapGeoUrl})

\* every IP service asked so far failed
IpServicesFailed ==
    \A i \in 1..Len(nav.asked) :
        nav.asked[i].url \notin {AmapIpUrl, AmapGeoUrl} =>
            IpLocation(nav.asked[i].url, nav.asked[i].resp) = JNull

====
